---- MODULE Spec2Model ----
(***************************************************************************)
(* Authentication subsystem of the snake-game template: the record store   *)
(* (users, sessions), the exported functions of server/utils/auth.ts and   *)
(* the HTTP handlers under server/api/auth.                                *)
(*                                                                         *)
(* Conventions.  JavaScript null/undefined of a string field is NULL, of a *)
(* text value held as a character sequence (email, password digest) it is  *)
(* the empty sequence, which the code treats like null wherever it tests   *)
(* truthiness.  Ids produced by nanoid() are fresh positive integers, and  *)
(* 0 stands for "no id".  The clock counts units of 100 ms, because the    *)
(* 30-day session lifetime in milliseconds exceeds the checker's integers. *)
(* The created_at / updated_at columns of users are not modelled.          *)
(***************************************************************************)
EXTENDS Integers, Sequences, FiniteSets, TLC

VARIABLES
    users,      \* rows of table users
    sessions,   \* rows of table sessions
    now,        \* Date.now(), in units of 100 ms
    nextUid,    \* next id nanoid() yields for a user row
    nextSid,    \* next id nanoid(32) yields for a session row
    cookies,    \* the browser's cookie jar: the apple_oauth_state cookie
    op,         \* the operation last invoked, with its arguments
    out,        \* its outcome: return value or error status, and its effects
    inflight,   \* the requests served concurrently: each one's position, its
                \* local variables and, once answered, its response
    db,         \* the module variable _db of the database module: the handle,
                \* and the number of handles drizzle() has made
    game        \* the state of the SnakeGame component: its refs, its module
                \* variables and the interval timers that are running

vars ==
    <<users, sessions, now, nextUid, nextSid, cookies, op, out, inflight, db, game>>

\* ---------------------------------------------------------------- bounds

MaxUsers == 2
MaxSessions == 2
MaxPeriods == 1
MaxRequests == 2
MaxCalls == 4
\* The side of the board, in cells (the board is 20 by 20 when the component
\* is used without gridSize).
GRID == 4
\* Math.random() yields k / RandomSteps for a k below RandomSteps.
RandomSteps == 2
\* The interval fires at most MaxTicks times where its callbacks are counted.
MaxTicks == 7

\* ------------------------------------------------------------- constants

UNITS_PER_SECOND == 10
SESSION_EXPIRY_MS == 30 * 24 * 60 * 60 * UNITS_PER_SECOND

NULL == "<null>"
NoId == 0

\* --------------------------------------------------------- input domains

Emails == { <<"a", "@", "x">>, <<" ", "A", "@", "X", " ">>, <<"b", "@", "x">> }
Passwords == {"password1", "password2"}
Salts == { <<17>>, <<171>> }
Names == {NULL, "Ann"}
AppleIds == {NULL, "p1", "p2"}
\* The instants the clock is read at: whole seconds and half seconds around
\* each multiple of the session lifetime.
Instants ==
    { k * SESSION_EXPIRY_MS + j : k \in 0..MaxPeriods,
                                  j \in {0, 5, UNITS_PER_SECOND} }

\* ------------------------------------------------------ JavaScript values

Truthy(s) == s # NULL /\ s # ""
OrNull(s) == IF Truthy(s) THEN s ELSE NULL

LowerTable ==
    [c \in {"A", "B", "X", "a", "b", "x", "@", " "} |->
        CASE c = "A" -> "a" [] c = "B" -> "b" [] c = "X" -> "x" [] OTHER -> c]
ToLowerCase(s) == [i \in 1..Len(s) |-> LowerTable[s[i]]]

IsSpace(c) == c = " "
RECURSIVE TrimStart(_)
TrimStart(s) == IF s # <<>> /\ IsSpace(Head(s)) THEN TrimStart(Tail(s)) ELSE s
RECURSIVE TrimEnd(_)
TrimEnd(s) ==
    IF s # <<>> /\ IsSpace(s[Len(s)]) THEN TrimEnd(SubSeq(s, 1, Len(s) - 1)) ELSE s
Trim(s) == TrimEnd(TrimStart(s))

\* The email trimmed but not lower-cased.
NormalizeEmail_NoLower(email) == Trim(email)

\* The email lower-cased but not trimmed.
NormalizeEmail_NoTrim(email) == ToLowerCase(email)

NormalizeEmail(email) == Trim(ToLowerCase(email))

\* ------------------------------------------------------- password hashing

HexDigit(n) ==
    CASE n < 10 -> <<"0", "1", "2", "3", "4", "5", "6", "7", "8", "9">>[n + 1]
      [] OTHER -> <<"a", "b", "c", "d", "e", "f">>[n - 9]
RECURSIVE bytesToHex(_)
bytesToHex(bytes) ==
    IF bytes = <<>> THEN <<>>
    ELSE <<HexDigit(Head(bytes) \div 16), HexDigit(Head(bytes) % 16)>>
            \o bytesToHex(Tail(bytes))

HexValue(c) ==
    CASE c = "0" -> 0 [] c = "1" -> 1 [] c = "2" -> 2 [] c = "3" -> 3
      [] c = "4" -> 4 [] c = "5" -> 5 [] c = "6" -> 6 [] c = "7" -> 7
      [] c = "8" -> 8 [] c = "9" -> 9 [] c = "a" -> 10 [] c = "b" -> 11
      [] c = "c" -> 12 [] c = "d" -> 13 [] c = "e" -> 14 [] c = "f" -> 15
      [] OTHER -> -1
\* parseInt(two characters, 16): NaN, stored in a Uint8Array as 0, when the
\* first character is no hex digit; the first digit alone when the second
\* is none.
ParseHexPair(p) ==
    IF HexValue(p[1]) < 0 THEN 0
    ELSE IF Len(p) < 2 \/ HexValue(p[2]) < 0 THEN HexValue(p[1])
    ELSE 16 * HexValue(p[1]) + HexValue(p[2])
hexToBytes(hex) ==
    [i \in 1..(Len(hex) \div 2) |-> ParseHexPair(SubSeq(hex, 2 * i - 1, 2 * i))]

\* TextEncoder().encode(password), one byte standing for each password.
TextEncode(password) ==
    CASE password = "password1" -> <<1>>
      [] password = "password2" -> <<2>>
      [] OTHER -> <<0>>
\* A key derived from the salt alone.
Pbkdf2_IgnoresPassword(password, salt) == salt

\* PBKDF2-HMAC-SHA-256 as a collision-free function of password and salt.
Pbkdf2(password, salt) == TextEncode(password) \o salt

\* The digest stored without its salt.
hashPassword_NoSalt(password, salt) ==
    <<"0", "0", ":">> \o bytesToHex(Pbkdf2(password, <<0>>))

hashPassword(password, salt) ==
    bytesToHex(salt) \o <<":">> \o bytesToHex(Pbkdf2(password, salt))

\* stored.split(':'): the fields between the colons.
RECURSIVE Split(_, _)
Split(s, acc) ==
    IF s = <<>> THEN <<acc>>
    ELSE IF Head(s) = ":" THEN <<acc>> \o Split(Tail(s), <<>>)
    ELSE Split(Tail(s), Append(acc, Head(s)))

\* The stored string checked for its two fields only.
verifyPassword_FormatOnly(password, stored) ==
    LET fields == Split(stored, <<>>)
    IN  Len(fields) >= 2 /\ fields[1] # <<>> /\ fields[2] # <<>>

verifyPassword(password, stored) ==
    LET fields == Split(stored, <<>>)
        saltHex == fields[1]
        expectedHex == IF Len(fields) >= 2 THEN fields[2] ELSE <<>>
    IN  IF saltHex = <<>> \/ expectedHex = <<>> THEN FALSE
        ELSE bytesToHex(Pbkdf2(password, hexToBytes(saltHex))) = expectedHex

\* ------------------------------------------------------------ record store

NoUser ==
    [id |-> NoId, email |-> <<>>, passwordHash |-> <<>>, name |-> NULL,
     appleId |-> NULL, isAdmin |-> FALSE]

\* users: id PRIMARY KEY, email UNIQUE NOT NULL, apple_id UNIQUE (SQL NULLs
\* never collide).
UsersInsertOk(U, row) ==
    \A u \in U :
        /\ u.id # row.id
        /\ u.email # row.email
        /\ row.appleId = NULL \/ u.appleId # row.appleId

\* UPDATE users SET apple_id = appleId WHERE id = uid under the same constraint.
UsersLinkOk(U, uid, appleId) ==
    \A u \in U : u.id # uid => u.appleId # appleId

\* sessions: id PRIMARY KEY, user_id NOT NULL REFERENCES users(id).
SessionsInsertOk(U, S, row) ==
    /\ \A s \in S : s.id # row.id
    /\ \E u \in U : u.id = row.userId

\* integer('expires_at', {mode: 'timestamp'}): a Date is written as whole
\* seconds, rounded down, and read back as that second.
ToTimestampColumn(t) == (t \div UNITS_PER_SECOND) * UNITS_PER_SECOND

getUserById(U, id) ==
    IF \E u \in U : u.id = id THEN CHOOSE u \in U : u.id = id ELSE NoUser

getUserByEmail(U, email) ==
    LET e == NormalizeEmail(email)
    IN  IF \E u \in U : u.email = e THEN CHOOSE u \in U : u.email = e ELSE NoUser

\* ---------------------------------------------------- server/utils/auth.ts
\* Each function is an operator from the store (and the values the function
\* draws: a fresh id, a salt, the clock) to [err, users or sessions, result];
\* err is TRUE when the function throws, and then the store is as the
\* statements before the throw left it.

\* createUser that writes the admin flag set.
createUser_AsAdmin(U, id, email, password, name, salt) ==
    LET row == [id |-> id, email |-> NormalizeEmail(email),
                passwordHash |-> hashPassword(password, salt),
                name |-> OrNull(name), appleId |-> NULL, isAdmin |-> TRUE]
    IN  IF UsersInsertOk(U, row)
        THEN [err |-> FALSE, users |-> U \cup {row},
              user |-> getUserById(U \cup {row}, id)]
        ELSE [err |-> TRUE, users |-> U, user |-> NoUser]

createUser(U, id, email, password, name, salt) ==
    LET row == [id |-> id, email |-> NormalizeEmail(email),
                passwordHash |-> hashPassword(password, salt),
                name |-> OrNull(name), appleId |-> NULL, isAdmin |-> FALSE]
    IN  IF UsersInsertOk(U, row)
        THEN [err |-> FALSE, users |-> U \cup {row},
              user |-> getUserById(U \cup {row}, id)]
        ELSE [err |-> TRUE, users |-> U, user |-> NoUser]

\* The user returned whatever the password.
verifyCredentials_NoPassword(U, email, password) ==
    LET user == getUserByEmail(U, email)
    IN  IF user = NoUser \/ user.passwordHash = <<>> THEN NoUser ELSE user

verifyCredentials(U, email, password) ==
    LET user == getUserByEmail(U, email)
    IN  IF user = NoUser \/ user.passwordHash = <<>> THEN NoUser
        ELSE IF verifyPassword(password, user.passwordHash) THEN user
        ELSE NoUser

\* findOrCreateOAuthUser that links the provider id over one already set.
findOrCreateOAuthUser_Relinks(U, id, email, name, appleId) ==
    LET existing == getUserByEmail(U, email)
        row == [id |-> id, email |-> NormalizeEmail(email), passwordHash |-> <<>>,
                name |-> OrNull(name), appleId |-> OrNull(appleId),
                isAdmin |-> FALSE]
    IN  IF existing # NoUser
        THEN IF Truthy(appleId)
             THEN IF UsersLinkOk(U, existing.id, appleId)
                  THEN [err |-> FALSE,
                        users |-> (U \ {existing})
                                    \cup {[existing EXCEPT !.appleId = appleId]},
                        user |-> existing]
                  ELSE [err |-> TRUE, users |-> U, user |-> NoUser]
             ELSE [err |-> FALSE, users |-> U, user |-> existing]
        ELSE IF UsersInsertOk(U, row)
             THEN [err |-> FALSE, users |-> U \cup {row},
                   user |-> getUserById(U \cup {row}, id)]
             ELSE [err |-> TRUE, users |-> U, user |-> NoUser]

findOrCreateOAuthUser(U, id, email, name, appleId) ==
    LET existing == getUserByEmail(U, email)
        row == [id |-> id, email |-> NormalizeEmail(email), passwordHash |-> <<>>,
                name |-> OrNull(name), appleId |-> OrNull(appleId),
                isAdmin |-> FALSE]
    IN  IF existing # NoUser
        THEN IF Truthy(appleId) /\ ~Truthy(existing.appleId)
             THEN IF UsersLinkOk(U, existing.id, appleId)
                  THEN [err |-> FALSE,
                        users |-> (U \ {existing})
                                    \cup {[existing EXCEPT !.appleId = appleId]},
                        user |-> existing]
                  ELSE [err |-> TRUE, users |-> U, user |-> NoUser]
             ELSE [err |-> FALSE, users |-> U, user |-> existing]
        ELSE IF UsersInsertOk(U, row)
             THEN [err |-> FALSE, users |-> U \cup {row},
                   user |-> getUserById(U \cup {row}, id)]
             ELSE [err |-> TRUE, users |-> U, user |-> NoUser]

\* The row written for another user id, in a store without the reference.
createSession_WrongOwner(U, S, id, userId, t) ==
    LET row == [id |-> id, userId |-> userId + 1,
                expiresAt |-> ToTimestampColumn(t + SESSION_EXPIRY_MS),
                createdAt |-> t]
    IN  [err |-> FALSE, sessions |-> S \cup {row}, sid |-> id]

createSession(U, S, id, userId, t) ==
    LET row == [id |-> id, userId |-> userId,
                expiresAt |-> ToTimestampColumn(t + SESSION_EXPIRY_MS),
                createdAt |-> t]
    IN  IF SessionsInsertOk(U, S, row)
        THEN [err |-> FALSE, sessions |-> S \cup {row}, sid |-> id]
        ELSE [err |-> TRUE, sessions |-> S, sid |-> NoId]

\* DELETE without its WHERE clause.
deleteSession_NoWhere(S, sessionId) == {}

deleteSession(S, sessionId) == {s \in S : s.id # sessionId}

\* The owner looked up by the session's id instead of its user_id.
validateSession_BySessionId(U, S, sessionId, t) ==
    IF ~ \E s \in S : s.id = sessionId
    THEN [sessions |-> S, user |-> NoUser]
    ELSE LET session == CHOOSE s \in S : s.id = sessionId
         IN  IF session.expiresAt < t
             THEN [sessions |-> deleteSession(S, sessionId), user |-> NoUser]
             ELSE [sessions |-> S, user |-> getUserById(U, session.id)]

\* The expired row left in the store.
validateSession_NoDelete(U, S, sessionId, t) ==
    IF ~ \E s \in S : s.id = sessionId
    THEN [sessions |-> S, user |-> NoUser]
    ELSE LET session == CHOOSE s \in S : s.id = sessionId
         IN  IF session.expiresAt < t
             THEN [sessions |-> S, user |-> NoUser]
             ELSE [sessions |-> S, user |-> getUserById(U, session.userId)]

validateSession(U, S, sessionId, t) ==
    IF ~ \E s \in S : s.id = sessionId
    THEN [sessions |-> S, user |-> NoUser]
    ELSE LET session == CHOOSE s \in S : s.id = sessionId
         IN  IF session.expiresAt < t
             THEN [sessions |-> deleteSession(S, sessionId), user |-> NoUser]
             ELSE [sessions |-> S, user |-> getUserById(U, session.userId)]

\* ---------------------------------------------- app/components/SnakeGame.vue
\* The component's refs (state, score, highScore) and module variables (snake,
\* direction, nextDirection, food, tickTimer, touchStartPos) are the fields of
\* one record, together with the set of interval timers that are running,
\* whether the overlay with the Play button is in the page, and the number of
\* callbacks of the interval counted so far; a function of the component is
\* an operator from the record (and the value Math.random() yields) to the
\* record it leaves.

Directions == {"up", "down", "left", "right"}
Point(x, y) == [x |-> x, y |-> y]
\* touchStartPos = null
NoPoint == Point(-1, -1)
\* tickTimer = null
NoTimer == 0
minSwipe == 20

NewGame ==
    [state |-> "idle", score |-> 0, highScore |-> 0, snake |-> <<>>,
     direction |-> "right", nextDirection |-> "right", food |-> Point(10, 10),
     tickTimer |-> NoTimer, touchStartPos |-> NoPoint, timers |-> {},
     overlay |-> TRUE, ticks |-> 0]

Occupied(snake, p) == \E i \in 1..Len(snake) : snake[i] = p

\* The free cells from the k-th on, in the order of the two nested loops.
RECURSIVE FreeFrom(_, _)
FreeFrom(snake, k) ==
    IF k >= GRID * GRID THEN <<>>
    ELSE LET p == Point(k \div GRID, k % GRID)
         IN  IF Occupied(snake, p) THEN FreeFrom(snake, k + 1)
             ELSE <<p>> \o FreeFrom(snake, k + 1)

\* The identifier setInterval returns: the first one no running timer has.
FreshTimer(g) ==
    CHOOSE m \in 1..(Cardinality(g.timers) + 1) :
        m \notin g.timers /\ \A k \in 1..(m - 1) : k \in g.timers

\* endGame that leaves the interval running.
endGame_KeepsTimer(g) ==
    [g EXCEPT !.state = "gameover",
              !.highScore = IF g.score > g.highScore THEN g.score ELSE @]

endGame(g) ==
    LET cleared == IF g.tickTimer # NoTimer
                   THEN [g EXCEPT !.timers = @ \ {g.tickTimer},
                                  !.tickTimer = NoTimer]
                   ELSE g
    IN  [cleared EXCEPT !.state = "gameover",
                        !.highScore = IF g.score > g.highScore THEN g.score ELSE @]

\* spawnFood that may put the food on any cell of the board.
spawnFood_AnyCell(g, n) ==
    LET free == FreeFrom(<<>>, 0)
    IN  [g EXCEPT !.food = free[(n * Len(free)) \div RandomSteps + 1]]

\* n / RandomSteps is what Math.random() yields.
spawnFood(g, n) ==
    LET free == FreeFrom(g.snake, 0)
    IN  IF Len(free) = 0 THEN endGame(g)
        ELSE [g EXCEPT !.food = free[(n * Len(free)) \div RandomSteps + 1]]

startGame(g, n) ==
    LET mid == GRID \div 2
        reset == [g EXCEPT !.snake = <<Point(mid, mid), Point(mid - 1, mid),
                                       Point(mid - 2, mid)>>,
                           !.direction = "right",
                           !.nextDirection = "right",
                           !.score = 0,
                           !.state = "playing"]
        fed == spawnFood(reset, n)
        cleared == IF fed.tickTimer # NoTimer
                   THEN [fed EXCEPT !.timers = @ \ {fed.tickTimer}]
                   ELSE fed
        id == FreshTimer(cleared)
    IN  [cleared EXCEPT !.tickTimer = id, !.timers = @ \cup {id}]

Move(p, dir) ==
    CASE dir = "up" -> Point(p.x, p.y - 1)
      [] dir = "down" -> Point(p.x, p.y + 1)
      [] dir = "left" -> Point(p.x - 1, p.y)
      [] dir = "right" -> Point(p.x + 1, p.y)

\* tick that awards the points without growing the snake.
tick_NoGrowth(g, n) ==
    LET turned == [g EXCEPT !.direction = g.nextDirection]
        next == Move(g.snake[1], turned.direction)
    IN  IF next.x < 0 \/ next.x >= GRID \/ next.y < 0 \/ next.y >= GRID
        THEN endGame(turned)
        ELSE IF Occupied(g.snake, next) THEN endGame(turned)
        ELSE LET moved == [turned EXCEPT !.snake =
                              <<next>> \o SubSeq(@, 1, Len(@) - 1)]
             IN  IF next = g.food
                 THEN spawnFood([moved EXCEPT !.score = @ + 10], n)
                 ELSE moved

tick(g, n) ==
    LET turned == [g EXCEPT !.direction = g.nextDirection]
        next == Move(g.snake[1], turned.direction)
    IN  IF next.x < 0 \/ next.x >= GRID \/ next.y < 0 \/ next.y >= GRID
        THEN endGame(turned)
        ELSE IF Occupied(g.snake, next) THEN endGame(turned)
        ELSE LET grown == [turned EXCEPT !.snake = <<next>> \o @]
             IN  IF next = g.food
                 THEN spawnFood([grown EXCEPT !.score = @ + 10], n)
                 ELSE [grown EXCEPT !.snake = SubSeq(@, 1, Len(@) - 1)]

opposites(dir) ==
    CASE dir = "up" -> "down"
      [] dir = "down" -> "up"
      [] dir = "left" -> "right"
      [] dir = "right" -> "left"

\* changeDirection that tests the request against the pending direction.
changeDirection_AgainstNext(g, dir) ==
    IF dir # opposites(g.nextDirection) THEN [g EXCEPT !.nextDirection = dir] ELSE g

changeDirection(g, dir) ==
    IF dir # opposites(g.direction) THEN [g EXCEPT !.nextDirection = dir] ELSE g

\* keyMap[e.key], NULL for a key it does not hold.
keyMap(key) ==
    CASE key \in {"ArrowUp", "w", "W"} -> "up"
      [] key \in {"ArrowDown", "s", "S"} -> "down"
      [] key \in {"ArrowLeft", "a", "A"} -> "left"
      [] key \in {"ArrowRight", "d", "D"} -> "right"
      [] OTHER -> NULL

\* <div v-if="state !== 'playing'"> inside <Transition name="fade">: the
\* overlay is put in the page when no game is played, and once a game is
\* played it stays until it has faded out.
Render(g) == [g EXCEPT !.overlay = @ \/ g.state # "playing"]

handleKeydown(g, key, n) ==
    IF g.state # "playing"
    THEN IF key \in {"Enter", " "} THEN startGame(g, n) ELSE g
    ELSE IF keyMap(key) # NULL THEN changeDirection(g, keyMap(key)) ELSE g

handleTouchStart(g, touch) == [g EXCEPT !.touchStartPos = touch]

Abs(i) == IF i < 0 THEN -i ELSE i

handleTouchEnd(g, touch, n) ==
    LET dx == touch.x - g.touchStartPos.x
        dy == touch.y - g.touchStartPos.y
        lifted == [g EXCEPT !.touchStartPos = NoPoint]
    IN  IF g.touchStartPos = NoPoint THEN g
        ELSE IF Abs(dx) < minSwipe /\ Abs(dy) < minSwipe
        THEN IF g.state # "playing" THEN startGame(lifted, n) ELSE lifted
        ELSE IF Abs(dx) > Abs(dy)
        THEN changeDirection(lifted, IF dx > 0 THEN "right" ELSE "left")
        ELSE changeDirection(lifted, IF dy > 0 THEN "down" ELSE "up")

\* ------------------------------------------------------ the database module
\* let _db = null: no handle yet, none made.
NoHandle == [instance |-> NoId, binding |-> NULL]
NoDatabase == [instance |-> NoId, binding |-> NULL, made |-> 0]
\* The handle _db holds: the instance drizzle() returned and its binding.
Handle(D) == [instance |-> D.instance, binding |-> D.binding]

\* initDatabase making a handle at every call.
initDatabase_Replaces(D, d1) ==
    [instance |-> D.made + 1, binding |-> d1, made |-> D.made + 1]

\* initDatabase(d1): the database module after the call; the call returns its
\* handle.
initDatabase(D, d1) ==
    IF D.instance = NoId
    THEN [instance |-> D.made + 1, binding |-> d1, made |-> D.made + 1]
    ELSE D

\* useDatabase(): throws before initialisation, else returns the handle.
useDatabase(D) ==
    IF D.instance = NoId THEN [err |-> TRUE, handle |-> NoHandle]
    ELSE [err |-> FALSE, handle |-> Handle(D)]

\* ------------------------------------------------------------------ state

\* status: the HTTP status of a request, or 200 / 500 for a call that returns /
\* throws; user: the user returned; sid: the session id returned, or set as
\* the session cookie; cookie: what the response does to the session cookie;
\* inserted: the user rows the operation inserted; deleted: the session rows
\* it deleted; fetched: the token requests it sent to the provider; message:
\* the error message.
Out(status, user, sid, cookie, inserted, deleted, fetched, message) ==
    [status |-> status, user |-> user, sid |-> sid, cookie |-> cookie,
     inserted |-> inserted, deleted |-> deleted, fetched |-> fetched,
     message |-> message]
NoOut == Out(0, NoUser, NoId, "keep", 0, 0, 0, "")
\* The outcome of a call of an exported function.
Ret(err, user, sid, inserted, deleted) ==
    Out(IF err THEN 500 ELSE 200, user, sid, "keep", inserted, deleted, 0, "")

NoCookies == [apple_oauth_state |-> NULL]

Init ==
    /\ users = {}
    /\ sessions = {}
    /\ now = 0
    /\ nextUid = 1
    /\ nextSid = 1
    /\ cookies = NoCookies
    /\ op = [fn |-> "idle"]
    /\ out = NoOut
    /\ inflight = <<>>
    /\ db = NoDatabase
    /\ game = NewGame

\* Time passes between two operations.
Tick(t) ==
    /\ t > now
    /\ now' = t
    /\ op' = [fn |-> "idle"]
    /\ out' = NoOut
    /\ UNCHANGED <<users, sessions, nextUid, nextSid, cookies, inflight, db, game>>

\* ------------------------------------------- calls of the exported functions
\* A call that returns has status 200, a call that throws has status 500.

CallCreateUser(email, password, name, salt) ==
    LET r == createUser(users, nextUid, email, password, name, salt)
    IN  /\ r.err \/ nextUid <= MaxUsers
        /\ users' = r.users
        /\ nextUid' = IF r.err THEN nextUid ELSE nextUid + 1
        /\ op' = [fn |-> "createUser", email |-> email, password |-> password,
                  name |-> name, salt |-> salt]
        /\ out' = Ret(r.err, r.user, NoId,
                    Cardinality(r.users) - Cardinality(users), 0)
        /\ UNCHANGED <<sessions, now, nextSid, cookies, inflight, db, game>>

CallVerifyCredentials(email, password) ==
    /\ op' = [fn |-> "verifyCredentials", email |-> email, password |-> password]
    /\ out' = Ret(FALSE, verifyCredentials(users, email, password), NoId, 0, 0)
    /\ UNCHANGED <<users, sessions, now, nextUid, nextSid, cookies, inflight, db, game>>

CallFindOrCreateOAuthUser(email, name, appleId) ==
    LET r == findOrCreateOAuthUser(users, nextUid, email, name, appleId)
        created == Cardinality(r.users) > Cardinality(users)
    IN  /\ ~created \/ nextUid <= MaxUsers
        /\ users' = r.users
        /\ nextUid' = IF created THEN nextUid + 1 ELSE nextUid
        /\ op' = [fn |-> "findOrCreateOAuthUser", email |-> email, name |-> name,
                  appleId |-> appleId]
        /\ out' = Ret(r.err, r.user, NoId,
                    Cardinality(r.users) - Cardinality(users), 0)
        /\ UNCHANGED <<sessions, now, nextSid, cookies, inflight, db, game>>

CallCreateSession(userId) ==
    LET r == createSession(users, sessions, nextSid, userId, now)
    IN  /\ r.err \/ nextSid <= MaxSessions
        /\ sessions' = r.sessions
        /\ nextSid' = IF r.err THEN nextSid ELSE nextSid + 1
        /\ op' = [fn |-> "createSession", userId |-> userId]
        /\ out' = Ret(r.err, NoUser, r.sid, 0, 0)
        /\ UNCHANGED <<users, now, nextUid, cookies, inflight, db, game>>

CallValidateSession(sessionId) ==
    LET r == validateSession(users, sessions, sessionId, now)
    IN  /\ sessions' = r.sessions
        /\ op' = [fn |-> "validateSession", sessionId |-> sessionId]
        /\ out' = Ret(FALSE, r.user, NoId, 0,
                    Cardinality(sessions) - Cardinality(r.sessions))
        /\ UNCHANGED <<users, now, nextUid, nextSid, cookies, inflight, db, game>>

CallDeleteSession(sessionId) ==
    /\ sessions' = deleteSession(sessions, sessionId)
    /\ op' = [fn |-> "deleteSession", sessionId |-> sessionId]
    /\ out' = Ret(FALSE, NoUser, NoId, 0,
                  Cardinality(sessions) - Cardinality(sessions'))
    /\ UNCHANGED <<users, now, nextUid, nextSid, cookies, inflight, db, game>>

\* ---------------------------------------------- the user-management functions

StoreSalts == { <<17>> }

NextUsers ==
    \/ \E email \in Emails, password \in Passwords, name \in Names,
          salt \in StoreSalts :
            CallCreateUser(email, password, name, salt)
    \/ \E email \in Emails, password \in Passwords :
            CallVerifyCredentials(email, password)
    \/ \E email \in Emails, name \in Names, appleId \in AppleIds :
            CallFindOrCreateOAuthUser(email, name, appleId)

SpecUsers == Init /\ [][NextUsers]_vars

\* ------------------------------------------------- server/utils/apple-auth.ts

APPLE_ISSUER == "https://appleid.apple.com"

FullConfig ==
    [appleTeamId |-> "TEAM", appleClientId |-> "com.example.app",
     appleKeyId |-> "KEY", appleSecretKey |-> "PEM", appUrl |-> "https://app"]

\* An identity token: the number of its dot-separated parts and the claims of
\* its payload; a claim the payload lacks is NULL, and ExpAbsent for exp.
ExpAbsent == -1
NoToken == [parts |-> 0, iss |-> NULL, aud |-> NULL, exp |-> ExpAbsent,
            email |-> <<>>, sub |-> NULL]
Token(iss, aud, exp, email, sub) ==
    [parts |-> 3, iss |-> iss, aud |-> aud, exp |-> exp, email |-> email,
     sub |-> sub]

\* Throws 500 when a credential is missing, else yields the signed assertion.
generateAppleClientSecret(config) ==
    IF \/ ~Truthy(config.appleTeamId) \/ ~Truthy(config.appleClientId)
       \/ ~Truthy(config.appleKeyId) \/ ~Truthy(config.appleSecretKey)
    THEN [status |-> 500, message |-> "Apple Sign-In not configured"]
    ELSE [status |-> 200, message |-> ""]

\* The POST sent a second time when the first is answered with an error.
exchangeAppleCode_Retries(config, code, redirectUri, response) ==
    LET secret == generateAppleClientSecret(config)
    IN  IF secret.status # 200
        THEN [status |-> secret.status, message |-> secret.message, fetched |-> 0,
              id_token |-> NoToken]
        ELSE IF ~response.ok
        THEN [status |-> 400,
              message |-> "Apple token exchange failed: " \o response.body,
              fetched |-> 2, id_token |-> NoToken]
        ELSE [status |-> 200, message |-> "", fetched |-> 1,
              id_token |-> response.id_token]

\* response: what the provider's token endpoint answers to the one POST.
exchangeAppleCode(config, code, redirectUri, response) ==
    LET secret == generateAppleClientSecret(config)
    IN  IF secret.status # 200
        THEN [status |-> secret.status, message |-> secret.message, fetched |-> 0,
              id_token |-> NoToken]
        ELSE IF ~response.ok
        THEN [status |-> 400,
              message |-> "Apple token exchange failed: " \o response.body,
              fetched |-> 1, id_token |-> NoToken]
        ELSE [status |-> 200, message |-> "", fetched |-> 1,
              id_token |-> response.id_token]

\* The audience checked before the issuer.
decodeAppleIdToken_AudienceFirst(config, idToken, t) ==
    LET fail(status, message) ==
            [status |-> status, message |-> message, payload |-> NoToken]
    IN  IF idToken = NoToken THEN fail(500, "TypeError")
        ELSE IF idToken.parts # 3 THEN fail(400, "Invalid Apple ID token format")
        ELSE IF idToken.aud # config.appleClientId
        THEN fail(400, "Invalid Apple ID token audience")
        ELSE IF idToken.iss # APPLE_ISSUER
        THEN fail(400, "Invalid Apple ID token issuer")
        ELSE IF idToken.exp # ExpAbsent /\ idToken.exp < t \div UNITS_PER_SECOND
        THEN fail(400, "Apple ID token has expired")
        ELSE [status |-> 200, message |-> "", payload |-> idToken]

\* t: Date.now().  An undefined token makes idToken.split throw (500).
decodeAppleIdToken(config, idToken, t) ==
    LET fail(status, message) ==
            [status |-> status, message |-> message, payload |-> NoToken]
    IN  IF idToken = NoToken THEN fail(500, "TypeError")
        ELSE IF idToken.parts # 3 THEN fail(400, "Invalid Apple ID token format")
        ELSE IF idToken.iss # APPLE_ISSUER
        THEN fail(400, "Invalid Apple ID token issuer")
        ELSE IF idToken.aud # config.appleClientId
        THEN fail(400, "Invalid Apple ID token audience")
        ELSE IF idToken.exp # ExpAbsent /\ idToken.exp < t \div UNITS_PER_SECOND
        THEN fail(400, "Apple ID token has expired")
        ELSE [status |-> 200, message |-> "", payload |-> idToken]

\* ------------------------------------------------------------ HTTP handlers
\* A handler is an operator from the request and the state to the state it
\* leaves and its response.

Reply(U, S, state, o) ==
    [users |-> U, sessions |-> S, cookies |-> [apple_oauth_state |-> state],
     out |-> o]
Error(state, status, message) ==
    Reply(users, sessions, state,
          Out(status, NoUser, NoId, "keep", 0, 0, 0, message))

\* z.string().email(): no whitespace, something on both sides of the @.
IsEmail(e) ==
    /\ \A i \in 1..Len(e) : ~IsSpace(e[i])
    /\ \E i \in 2..(Len(e) - 1) : e[i] = "@"

\* The handler without its lookup of an existing user.
signup_NoLookup(body, salt) ==
    LET keep == cookies.apple_oauth_state
        cu == createUser(users, nextUid, body.email, body.password, body.name, salt)
        cs == createSession(cu.users, sessions, nextSid, cu.user.id, now)
    IN  IF ~IsEmail(body.email) THEN Error(keep, 400, "Invalid email")
        ELSE IF Len(body.password) < 8
        THEN Error(keep, 400, "Password must be at least 8 characters")
        ELSE IF cu.err THEN Error(keep, 500, "SQLITE_CONSTRAINT")
        ELSE IF cs.err
        THEN Reply(cu.users, sessions, keep,
                   Out(500, NoUser, NoId, "keep", 1, 0, 0, "SQLITE_CONSTRAINT"))
        ELSE Reply(cu.users, cs.sessions, keep,
                   Out(200, cu.user, cs.sid, "set", 1, 0, 0, ""))

\* signup.post.ts
signup(body, salt) ==
    LET keep == cookies.apple_oauth_state
    IN  IF ~IsEmail(body.email) THEN Error(keep, 400, "Invalid email")
        ELSE IF Len(body.password) < 8
        THEN Error(keep, 400, "Password must be at least 8 characters")
        ELSE IF getUserByEmail(users, body.email) # NoUser
        THEN Error(keep, 409, "An account with this email already exists")
        ELSE LET cu == createUser(users, nextUid, body.email, body.password,
                                  body.name, salt)
                 cs == createSession(cu.users, sessions, nextSid, cu.user.id, now)
             IN  IF cu.err THEN Error(keep, 500, "SQLITE_CONSTRAINT")
                 ELSE IF cs.err
                 THEN Reply(cu.users, sessions, keep,
                            Out(500, NoUser, NoId, "keep", 1, 0, 0,
                                "SQLITE_CONSTRAINT"))
                 ELSE Reply(cu.users, cs.sessions, keep,
                            Out(200, cu.user, cs.sid, "set", 1, 0, 0, ""))

\* The handler answering 404 when no user has the email.
login_TellsNoUser(body) ==
    LET keep == cookies.apple_oauth_state
        user == verifyCredentials(users, body.email, body.password)
        cs == createSession(users, sessions, nextSid, user.id, now)
    IN  IF ~IsEmail(body.email) THEN Error(keep, 400, "Invalid email")
        ELSE IF Len(body.password) < 1 THEN Error(keep, 400, "Password is required")
        ELSE IF getUserByEmail(users, body.email) = NoUser
        THEN Error(keep, 404, "No such user")
        ELSE IF user = NoUser THEN Error(keep, 401, "Invalid email or password")
        ELSE IF cs.err THEN Error(keep, 500, "SQLITE_CONSTRAINT")
        ELSE Reply(users, cs.sessions, keep,
                   Out(200, user, cs.sid, "set", 0, 0, 0, ""))

\* login.post.ts
login(body) ==
    LET keep == cookies.apple_oauth_state
        user == verifyCredentials(users, body.email, body.password)
        cs == createSession(users, sessions, nextSid, user.id, now)
    IN  IF ~IsEmail(body.email) THEN Error(keep, 400, "Invalid email")
        ELSE IF Len(body.password) < 1 THEN Error(keep, 400, "Password is required")
        ELSE IF user = NoUser THEN Error(keep, 401, "Invalid email or password")
        ELSE IF cs.err THEN Error(keep, 500, "SQLITE_CONSTRAINT")
        ELSE Reply(users, cs.sessions, keep,
                   Out(200, user, cs.sid, "set", 0, 0, 0, ""))

\* The cookie cleared and the session row left in the store.
logout_KeepsRow(cookie) ==
    Reply(users, sessions, cookies.apple_oauth_state,
          Out(200, NoUser, NoId, "clear", 0, 0, 0, ""))

\* logout.post.ts; cookie: the session cookie the request carries, NoId for none.
logout(cookie) ==
    LET S == IF cookie # NoId THEN deleteSession(sessions, cookie) ELSE sessions
    IN  Reply(users, S, cookies.apple_oauth_state,
              Out(200, NoUser, NoId, "clear", 0,
                  Cardinality(sessions) - Cardinality(S), 0, ""))

\* The current-user handler.
me(cookie) ==
    LET v == validateSession(users, sessions, cookie, now)
        gone == Cardinality(sessions) - Cardinality(v.sessions)
        keep == cookies.apple_oauth_state
    IN  IF cookie = NoId
        THEN Reply(users, sessions, keep, Out(200, NoUser, NoId, "keep", 0, 0, 0, ""))
        ELSE IF v.user = NoUser
        THEN Reply(users, v.sessions, keep,
                   Out(200, NoUser, NoId, "clear", 0, gone, 0, ""))
        ELSE Reply(users, v.sessions, keep,
                   Out(200, v.user, NoId, "keep", 0, gone, 0, ""))

\* requireAuth that leaves a stale session cookie in place.
requireAuth_KeepsCookie(cookie) ==
    LET v == validateSession(users, sessions, cookie, now)
        gone == Cardinality(sessions) - Cardinality(v.sessions)
        keep == cookies.apple_oauth_state
    IN  IF cookie = NoId THEN Error(keep, 401, "Not authenticated")
        ELSE IF v.user = NoUser
        THEN Reply(users, v.sessions, keep,
                   Out(401, NoUser, NoId, "keep", 0, gone, 0, "Session expired"))
        ELSE Reply(users, v.sessions, keep,
                   Out(200, v.user, NoId, "keep", 0, gone, 0, ""))

\* requireAuth, as the whole of a request to a protected endpoint.
requireAuth(cookie) ==
    LET v == validateSession(users, sessions, cookie, now)
        gone == Cardinality(sessions) - Cardinality(v.sessions)
        keep == cookies.apple_oauth_state
    IN  IF cookie = NoId THEN Error(keep, 401, "Not authenticated")
        ELSE IF v.user = NoUser
        THEN Reply(users, v.sessions, keep,
                   Out(401, NoUser, NoId, "clear", 0, gone, 0, "Session expired"))
        ELSE Reply(users, v.sessions, keep,
                   Out(200, v.user, NoId, "keep", 0, gone, 0, ""))

\* The sign-in start handler: state is the token nanoid(32) yields.
appleStart(state) ==
    Reply(users, sessions, state, Out(302, NoUser, NoId, "keep", 0, 0, 0, ""))

\* JSON.parse of the `user` field: it throws (err) or yields the JSON null or
\* an object, whose name, when it has one, holds the two parts of the name.
JsonValue(err, isNull, hasName, firstName, lastName) ==
    [err |-> err, isNull |-> isNull, hasName |-> hasName,
     firstName |-> firstName, lastName |-> lastName]
JsonParse(text) ==
    CASE text = "null" -> JsonValue(FALSE, TRUE, FALSE, NULL, NULL)
      [] text = "{}" -> JsonValue(FALSE, FALSE, FALSE, NULL, NULL)
      [] text = "{name: {}}" -> JsonValue(FALSE, FALSE, TRUE, NULL, NULL)
      [] text = "{name: Ann}" -> JsonValue(FALSE, FALSE, TRUE, "Ann", NULL)
      [] OTHER -> JsonValue(TRUE, FALSE, FALSE, NULL, NULL)

\* [firstName, lastName].filter(Boolean).join(' ')
JoinNames(firstName, lastName) ==
    IF Truthy(firstName) /\ Truthy(lastName) THEN firstName \o " " \o lastName
    ELSE IF Truthy(firstName) THEN firstName
    ELSE IF Truthy(lastName) THEN lastName
    ELSE ""

\* The name of the optional `user` form field: absent, a string that is no
\* JSON, the JSON null, an object without a name, an object with a name.
ParseUserName(userJson) ==
    LET parsed == JsonParse(userJson)
    IN  IF parsed.err THEN NULL
        ELSE IF parsed.isNull THEN NULL
        ELSE IF ~parsed.hasName THEN NULL
        ELSE JoinNames(parsed.firstName, parsed.lastName)

\* The state check that trusts a request when no state cookie is stored.
StateRejected_OnlyIfStored(state, storedState) ==
    ~Truthy(state) \/ (Truthy(storedState) /\ state # storedState)

\* The CSRF validation of the callback.
StateRejected(state, storedState) ==
    ~Truthy(state) \/ ~Truthy(storedState) \/ state # storedState

\* The callback that leaves the state cookie in place when it rejects.
appleCallback_KeepsState(body, config, response) ==
    LET storedState == cookies.apple_oauth_state
        tokens == exchangeAppleCode(config, body.code, config.appUrl, response)
        decoded == decodeAppleIdToken(
                       config,
                       IF tokens.id_token # NoToken THEN tokens.id_token
                       ELSE body.id_token,
                       now)
        name == IF Truthy(body.user) THEN ParseUserName(body.user) ELSE NULL
        email == decoded.payload.email
        found == findOrCreateOAuthUser(users, nextUid, email, name,
                                       decoded.payload.sub)
        cs == createSession(found.users, sessions, nextSid, found.user.id, now)
        made == Cardinality(found.users) - Cardinality(users)
        fail(status, message, fetched) ==
            Reply(users, sessions, storedState,
                  Out(status, NoUser, NoId, "keep", 0, 0, fetched, message))
    IN  IF StateRejected(body.state, storedState)
        THEN fail(400, "Invalid state - possible CSRF attack", 0)
        ELSE IF ~Truthy(body.code) THEN fail(400, "Missing authorization code", 0)
        ELSE IF tokens.status # 200
        THEN fail(tokens.status, tokens.message, tokens.fetched)
        ELSE IF decoded.status # 200 THEN fail(decoded.status, decoded.message, 1)
        ELSE IF email = <<>>
        THEN fail(400, "Apple did not provide an email address", 1)
        ELSE IF found.err THEN fail(500, "SQLITE_CONSTRAINT", 1)
        ELSE IF cs.err
        THEN Reply(found.users, sessions, NULL,
                   Out(500, NoUser, NoId, "keep", made, 0, 1, "SQLITE_CONSTRAINT"))
        ELSE Reply(found.users, cs.sessions, NULL,
                   Out(302, found.user, cs.sid, "set", made, 0, 1, ""))

\* The callback without the try/catch around the parse of the `user` field.
appleCallback_NoCatch(body, config, response) ==
    LET storedState == cookies.apple_oauth_state
        tokens == exchangeAppleCode(config, body.code, config.appUrl, response)
        decoded == decodeAppleIdToken(
                       config,
                       IF tokens.id_token # NoToken THEN tokens.id_token
                       ELSE body.id_token,
                       now)
        name == IF Truthy(body.user) THEN ParseUserName(body.user) ELSE NULL
        email == decoded.payload.email
        found == findOrCreateOAuthUser(users, nextUid, email, name,
                                       decoded.payload.sub)
        cs == createSession(found.users, sessions, nextSid, found.user.id, now)
        made == Cardinality(found.users) - Cardinality(users)
        fail(status, message, fetched) ==
            Reply(users, sessions, NULL,
                  Out(status, NoUser, NoId, "keep", 0, 0, fetched, message))
    IN  IF StateRejected(body.state, storedState)
        THEN fail(400, "Invalid state - possible CSRF attack", 0)
        ELSE IF ~Truthy(body.code) THEN fail(400, "Missing authorization code", 0)
        ELSE IF tokens.status # 200
        THEN fail(tokens.status, tokens.message, tokens.fetched)
        ELSE IF decoded.status # 200 THEN fail(decoded.status, decoded.message, 1)
        ELSE IF /\ Truthy(body.user)
                /\ (JsonParse(body.user).err \/ JsonParse(body.user).isNull)
        THEN fail(500, "SyntaxError", 1)
        ELSE IF email = <<>>
        THEN fail(400, "Apple did not provide an email address", 1)
        ELSE IF found.err THEN fail(500, "SQLITE_CONSTRAINT", 1)
        ELSE IF cs.err
        THEN Reply(found.users, sessions, NULL,
                   Out(500, NoUser, NoId, "keep", made, 0, 1, "SQLITE_CONSTRAINT"))
        ELSE Reply(found.users, cs.sessions, NULL,
                   Out(302, found.user, cs.sid, "set", made, 0, 1, ""))

\* The callback without its check of the email claim.
appleCallback_NoEmailCheck(body, config, response) ==
    LET storedState == cookies.apple_oauth_state
        tokens == exchangeAppleCode(config, body.code, config.appUrl, response)
        decoded == decodeAppleIdToken(
                       config,
                       IF tokens.id_token # NoToken THEN tokens.id_token
                       ELSE body.id_token,
                       now)
        name == IF Truthy(body.user) THEN ParseUserName(body.user) ELSE NULL
        email == decoded.payload.email
        found == findOrCreateOAuthUser(users, nextUid, email, name,
                                       decoded.payload.sub)
        cs == createSession(found.users, sessions, nextSid, found.user.id, now)
        made == Cardinality(found.users) - Cardinality(users)
        fail(status, message, fetched) ==
            Reply(users, sessions, NULL,
                  Out(status, NoUser, NoId, "keep", 0, 0, fetched, message))
    IN  IF StateRejected(body.state, storedState)
        THEN fail(400, "Invalid state - possible CSRF attack", 0)
        ELSE IF ~Truthy(body.code) THEN fail(400, "Missing authorization code", 0)
        ELSE IF tokens.status # 200
        THEN fail(tokens.status, tokens.message, tokens.fetched)
        ELSE IF decoded.status # 200 THEN fail(decoded.status, decoded.message, 1)
        ELSE IF found.err THEN fail(500, "SQLITE_CONSTRAINT", 1)
        ELSE IF cs.err
        THEN Reply(found.users, sessions, NULL,
                   Out(500, NoUser, NoId, "keep", made, 0, 1, "SQLITE_CONSTRAINT"))
        ELSE Reply(found.users, cs.sessions, NULL,
                   Out(302, found.user, cs.sid, "set", made, 0, 1, ""))

\* apple/callback.post.ts
appleCallback(body, config, response) ==
    LET storedState == cookies.apple_oauth_state
        tokens == exchangeAppleCode(config, body.code, config.appUrl, response)
        decoded == decodeAppleIdToken(
                       config,
                       IF tokens.id_token # NoToken THEN tokens.id_token
                       ELSE body.id_token,
                       now)
        name == IF Truthy(body.user) THEN ParseUserName(body.user) ELSE NULL
        email == decoded.payload.email
        found == findOrCreateOAuthUser(users, nextUid, email, name,
                                       decoded.payload.sub)
        cs == createSession(found.users, sessions, nextSid, found.user.id, now)
        made == Cardinality(found.users) - Cardinality(users)
        fail(status, message, fetched) ==
            Reply(users, sessions, NULL,
                  Out(status, NoUser, NoId, "keep", 0, 0, fetched, message))
    IN  IF StateRejected(body.state, storedState)
        THEN fail(400, "Invalid state - possible CSRF attack", 0)
        ELSE IF ~Truthy(body.code) THEN fail(400, "Missing authorization code", 0)
        ELSE IF tokens.status # 200
        THEN fail(tokens.status, tokens.message, tokens.fetched)
        ELSE IF decoded.status # 200 THEN fail(decoded.status, decoded.message, 1)
        ELSE IF email = <<>>
        THEN fail(400, "Apple did not provide an email address", 1)
        ELSE IF found.err THEN fail(500, "SQLITE_CONSTRAINT", 1)
        ELSE IF cs.err
        THEN Reply(found.users, sessions, NULL,
                   Out(500, NoUser, NoId, "keep", made, 0, 1, "SQLITE_CONSTRAINT"))
        ELSE Reply(found.users, cs.sessions, NULL,
                   Out(302, found.user, cs.sid, "set", made, 0, 1, ""))

\* One request served: the handler's effects on the store and the cookie
\* jar, and its response.
Serve(request, r) ==
    /\ r.users = users \/ nextUid <= MaxUsers
    /\ r.sessions \subseteq sessions \/ nextSid <= MaxSessions
    /\ users' = r.users
    /\ sessions' = r.sessions
    /\ nextUid' = nextUid + Cardinality(r.users) - Cardinality(users)
    /\ nextSid' = IF r.sessions \subseteq sessions THEN nextSid ELSE nextSid + 1
    /\ cookies' = r.cookies
    /\ op' = request
    /\ out' = r.out
    /\ UNCHANGED <<now, inflight, db, game>>

Signup(body, salt) == Serve([fn |-> "signup", body |-> body, salt |-> salt],
                            signup(body, salt))
Login(body) == Serve([fn |-> "login", body |-> body], login(body))
Logout(cookie) == Serve([fn |-> "logout", cookie |-> cookie], logout(cookie))
Me(cookie) == Serve([fn |-> "me", cookie |-> cookie], me(cookie))
RequireAuth(cookie) ==
    Serve([fn |-> "requireAuth", cookie |-> cookie], requireAuth(cookie))
AppleStart(state) == Serve([fn |-> "appleStart", state |-> state], appleStart(state))
AppleCallback(body, config, response) ==
    Serve([fn |-> "appleCallback", body |-> body, config |-> config,
           response |-> response, storedState |-> cookies.apple_oauth_state],
          appleCallback(body, config, response))

\* The response is sent and the server waits for the next request.
Respond ==
    /\ op.fn # "idle"
    /\ op' = [fn |-> "idle"]
    /\ out' = NoOut
    /\ UNCHANGED <<users, sessions, now, nextUid, nextSid, cookies, inflight, db, game>>

\* ------------------------------------------------------- the HTTP requests

RequestEmails == Emails \cup { <<"A", "@", "X">> }
SignupBodies ==
    [email : RequestEmails, password : {"password1", "short"}, name : Names]
LoginBodies == [email : RequestEmails, password : Passwords \cup {""}]
SessionCookies == 0..MaxSessions
StateTokens == {"s1", "s2"}

\* Requests arrive at time 0 and after every session made then has expired.
RequestInstants == {SESSION_EXPIRY_MS + UNITS_PER_SECOND}

FarFuture == 2 * (MaxPeriods + 1) * (SESSION_EXPIRY_MS \div UNITS_PER_SECOND)
GoodToken(email, sub) ==
    Token(APPLE_ISSUER, FullConfig.appleClientId, FarFuture, email, sub)
IdTokens ==
    { GoodToken(e, sub) : e \in {<<"a", "@", "x">>, <<" ", "A", "@", "X", " ">>},
                          sub \in {"p1", "p2"} }
    \cup { GoodToken(<<"b", "@", "x">>, "p1"),
           GoodToken(<<"b", "@", "x">>, NULL),
           GoodToken(<<>>, "p1"),
           Token("https://evil.example", FullConfig.appleClientId, FarFuture,
                 <<"a", "@", "x">>, "p1"),
           Token(APPLE_ISSUER, "com.other.app", FarFuture, <<"a", "@", "x">>, "p1"),
           Token(APPLE_ISSUER, FullConfig.appleClientId, 0, <<"a", "@", "x">>, "p1"),
           Token(APPLE_ISSUER, FullConfig.appleClientId, ExpAbsent,
                 <<"a", "@", "x">>, "p1"),
           [GoodToken(<<"a", "@", "x">>, "p1") EXCEPT !.parts = 2] }
Configs ==
    {FullConfig} \cup {[FullConfig EXCEPT ![f] = NULL] : f \in DOMAIN FullConfig}
GoodResponse(token) == [ok |-> TRUE, body |-> "", id_token |-> token]
BadResponse == [ok |-> FALSE, body |-> "invalid_grant", id_token |-> NoToken]
UserJsons ==
    {NULL, "not json", "null", "{}", "{name: {}}", "{name: Ann}"}
Body(state, code, id_token, user) ==
    [state |-> state, code |-> code, id_token |-> id_token, user |-> user]

\* The callbacks: every state with every code; every configuration; every
\* answer of the provider; every `user` field.
CallbackRequests ==
    LET good == GoodToken(<<"a", "@", "x">>, "p1")
    IN  { <<Body(st, code, NoToken, NULL), FullConfig, GoodResponse(good)>> :
              st \in StateTokens \cup {NULL}, code \in {NULL, "c1"} }
        \cup { <<Body(st, "c1", NoToken, NULL), config, GoodResponse(good)>> :
              st \in StateTokens, config \in Configs }
        \cup { <<Body(st, "c1", NoToken, NULL), FullConfig, response>> :
              st \in StateTokens,
              response \in {BadResponse} \cup {GoodResponse(t) : t \in IdTokens} }
        \cup { <<Body(st, "c1", idt, NULL), FullConfig, GoodResponse(NoToken)>> :
              st \in StateTokens, idt \in {NoToken, good} }
        \cup { <<Body(st, "c1", NoToken, user), FullConfig, GoodResponse(good)>> :
              st \in StateTokens, user \in UserJsons }

Next ==
    \/ /\ op.fn = "idle"
       /\ \/ \E body \in SignupBodies, salt \in StoreSalts : Signup(body, salt)
          \/ \E body \in LoginBodies : Login(body)
          \/ \E cookie \in SessionCookies : Logout(cookie)
          \/ \E cookie \in SessionCookies : Me(cookie)
          \/ \E cookie \in SessionCookies : RequireAuth(cookie)
          \/ \E state \in StateTokens : AppleStart(state)
          \/ \E r \in CallbackRequests : AppleCallback(r[1], r[2], r[3])
          \/ \E t \in RequestInstants : Tick(t)
    \/ Respond

Spec == Init /\ [][Next]_vars

\* ------------------------------------------------- concurrent signup requests
\* signup.post.ts served for several requests at once: a request gives way to
\* the others at each await, that is before each statement on the store.

Procs == 1..MaxRequests

\* pc: "new" before the request arrives, "parsed" after the schema check,
\* "looked" after getUserByEmail found no user, "created" after createUser,
\* "done" once answered.
NewRequest ==
    [pc |-> "new", body |-> [email |-> <<>>, password |-> "", name |-> NULL],
     salt |-> <<>>, user |-> NoUser, out |-> NoOut]

Answered(r, o) == [r EXCEPT !.pc = "done", !.out = o]

InitRace ==
    /\ users = {}
    /\ sessions = {}
    /\ now = 0
    /\ nextUid = 1
    /\ nextSid = 1
    /\ cookies = NoCookies
    /\ op = [fn |-> "idle"]
    /\ out = NoOut
    /\ inflight = [p \in Procs |-> NewRequest]
    /\ db = NoDatabase
    /\ game = NewGame

\* readBody and signupSchema.safeParse
SignupParse(p, body, salt) ==
    LET r == [inflight[p] EXCEPT !.body = body, !.salt = salt]
        fail(message) == Out(400, NoUser, NoId, "keep", 0, 0, 0, message)
    IN  /\ inflight[p].pc = "new"
        /\ inflight' = [inflight EXCEPT ![p] =
                IF ~IsEmail(body.email) THEN Answered(r, fail("Invalid email"))
                ELSE IF Len(body.password) < 8
                THEN Answered(r, fail("Password must be at least 8 characters"))
                ELSE [r EXCEPT !.pc = "parsed"]]
        /\ UNCHANGED <<users, sessions, now, nextUid, nextSid, cookies, op, out, db, game>>

\* const existing = await getUserByEmail(email); if (existing) throw 409
SignupLookup(p) ==
    LET r == inflight[p]
    IN  /\ r.pc = "parsed"
        /\ inflight' = [inflight EXCEPT ![p] =
                IF getUserByEmail(users, r.body.email) # NoUser
                THEN Answered(r, Out(409, NoUser, NoId, "keep", 0, 0, 0,
                                     "An account with this email already exists"))
                ELSE [r EXCEPT !.pc = "looked"]]
        /\ UNCHANGED <<users, sessions, now, nextUid, nextSid, cookies, op, out, db, game>>

\* const user = await createUser(email, password, name); the store's error,
\* which nothing catches, is answered 500.
SignupCreateUser(p) ==
    LET r == inflight[p]
        cu == createUser(users, nextUid, r.body.email, r.body.password,
                         r.body.name, r.salt)
    IN  /\ r.pc = "looked"
        /\ users' = cu.users
        /\ nextUid' = IF cu.err THEN nextUid ELSE nextUid + 1
        /\ inflight' = [inflight EXCEPT ![p] =
                IF cu.err
                THEN Answered(r, Out(500, NoUser, NoId, "keep", 0, 0, 0,
                                     "SQLITE_CONSTRAINT"))
                ELSE [r EXCEPT !.pc = "created", !.user = cu.user]]
        /\ UNCHANGED <<sessions, now, nextSid, cookies, op, out, db, game>>

\* const sessionId = await createSession(user.id); setCookie; return
SignupCreateSession(p) ==
    LET r == inflight[p]
        cs == createSession(users, sessions, nextSid, r.user.id, now)
    IN  /\ r.pc = "created"
        /\ sessions' = cs.sessions
        /\ nextSid' = IF cs.err THEN nextSid ELSE nextSid + 1
        /\ inflight' = [inflight EXCEPT ![p] =
                IF cs.err
                THEN Answered(r, Out(500, NoUser, NoId, "keep", 1, 0, 0,
                                     "SQLITE_CONSTRAINT"))
                ELSE Answered(r, Out(200, r.user, cs.sid, "set", 1, 0, 0, ""))]
        /\ UNCHANGED <<users, now, nextUid, cookies, op, out, db, game>>

NextRace ==
    \E p \in Procs :
        \/ \E body \in SignupBodies, salt \in StoreSalts : SignupParse(p, body, salt)
        \/ SignupLookup(p)
        \/ SignupCreateUser(p)
        \/ SignupCreateSession(p)

SpecRace == InitRace /\ [][NextRace]_vars

\* ------------------------------------------------------ the password hasher
\* hashPassword and verifyPassword called on their own: hashPassword with a
\* password and the salt crypto.getRandomValues yields, verifyPassword with
\* a password and a stored string, well-formed or not.

HashPasswords == {"password1", "password2", "short"}
HashSalts == Salts \cup { <<0>>, <<1, 2>> }
Digests == {hashPassword(p, salt) : p \in HashPasswords, salt \in HashSalts}
\* Stored strings that are no digest: no colon, an empty field, a third field,
\* a salt that is no hex, a salt of odd length.
Malformed ==
    { <<>>, <<"1", "1">>, <<":">>, <<"1", "1", ":">>, <<":", "0", "1", "1", "1">>,
      <<"z", "z", ":", "0", "1", "0", "0">>, <<"z", "z", ":", "0", "2", "0", "0">>,
      <<"1", "z", ":", "0", "1", "0", "1">>, <<"1", ":", "0", "1">> }
    \cup {d \o <<":">> : d \in Digests}
    \cup {d \o <<":", "0", "0">> : d \in Digests}
StoredStrings == Digests \cup Malformed

HashOut(digest, valid) == [digest |-> digest, valid |-> valid]

CallHashPassword(password, salt) ==
    /\ op' = [fn |-> "hashPassword", password |-> password, salt |-> salt]
    /\ out' = HashOut(hashPassword(password, salt), FALSE)
    /\ UNCHANGED <<users, sessions, now, nextUid, nextSid, cookies, inflight, db, game>>

CallVerifyPassword(password, stored) ==
    /\ op' = [fn |-> "verifyPassword", password |-> password, stored |-> stored]
    /\ out' = HashOut(<<>>, verifyPassword(password, stored))
    /\ UNCHANGED <<users, sessions, now, nextUid, nextSid, cookies, inflight, db, game>>

NextHash ==
    \/ \E password \in HashPasswords, salt \in HashSalts :
            CallHashPassword(password, salt)
    \/ \E password \in HashPasswords, stored \in StoredStrings :
            CallVerifyPassword(password, stored)

SpecHash == Init /\ [][NextHash]_vars

\* ------------------------------------------------- the identity-token decoder
\* decodeAppleIdToken called on its own, at each instant of the clock, under a
\* configuration with and without a client id.

TokenConfigs == {FullConfig, [FullConfig EXCEPT !.appleClientId = NULL]}
TokenExps ==
    {ExpAbsent} \cup {t \div UNITS_PER_SECOND + d : t \in Instants, d \in {0, 1}}
DecodeTokens ==
    {NoToken}
    \cup { [Token(iss, aud, exp, <<"a", "@", "x">>, "p1") EXCEPT !.parts = parts] :
              iss \in {APPLE_ISSUER, "https://evil.example"},
              aud \in {FullConfig.appleClientId, "com.other.app", NULL},
              exp \in TokenExps, parts \in {2, 3} }

CallDecodeAppleIdToken(config, idToken) ==
    /\ op' = [fn |-> "decodeAppleIdToken", config |-> config, idToken |-> idToken]
    /\ out' = decodeAppleIdToken(config, idToken, now)
    /\ UNCHANGED <<users, sessions, now, nextUid, nextSid, cookies, inflight, db, game>>

NextToken ==
    \/ \E config \in TokenConfigs, idToken \in DecodeTokens :
            CallDecodeAppleIdToken(config, idToken)
    \/ \E t \in Instants : Tick(t)

SpecToken == Init /\ [][NextToken]_vars

\* ------------------------------------------------ the callback, step by step
\* apple/callback.post.ts as the sequence of its steps: the state check (with
\* the check of the code), the code exchange, the decoding of the identity
\* token (with the check of its email), findOrCreateOAuthUser, createSession.
\* inflight is the one callback being served.

\* pc: "new" before the request arrives; "exchange", "decode", "find",
\* "session": the step the callback runs next; "done" once answered.
NewCallback ==
    [pc |-> "new", body |-> Body(NULL, NULL, NoToken, NULL), config |-> FullConfig,
     response |-> BadResponse, storedState |-> NULL, idToken |-> NoToken,
     payload |-> NoToken, user |-> NoUser, fetched |-> 0, inserted |-> 0,
     out |-> NoOut]

\* throw createError
Rejected(r, status, message) ==
    [r EXCEPT !.pc = "done",
              !.out = Out(status, NoUser, NoId, "keep", r.inserted, 0, r.fetched,
                          message)]

InitFlow ==
    /\ users = {}
    /\ sessions = {}
    /\ now = 0
    /\ nextUid = 1
    /\ nextSid = 1
    /\ cookies = NoCookies
    /\ op = [fn |-> "idle"]
    /\ out = NoOut
    /\ inflight = NewCallback
    /\ db = NoDatabase
    /\ game = NewGame

\* The state check that lets a callback without a code through.
CallbackStateCheck_NoCodeCheck(body, config, response) ==
    LET r == [NewCallback EXCEPT !.body = body, !.config = config,
                                 !.response = response,
                                 !.storedState = cookies.apple_oauth_state]
    IN  /\ inflight.pc = "new"
        /\ cookies' = NoCookies
        /\ inflight' =
                IF StateRejected(body.state, cookies.apple_oauth_state)
                THEN Rejected(r, 400, "Invalid state - possible CSRF attack")
                ELSE [r EXCEPT !.pc = "exchange"]
        /\ UNCHANGED <<users, sessions, now, nextUid, nextSid, op, out, db, game>>

\* getCookie, deleteCookie, the CSRF validation and the check of the code
CallbackStateCheck(body, config, response) ==
    LET r == [NewCallback EXCEPT !.body = body, !.config = config,
                                 !.response = response,
                                 !.storedState = cookies.apple_oauth_state]
    IN  /\ inflight.pc = "new"
        /\ cookies' = NoCookies
        /\ inflight' =
                IF StateRejected(body.state, cookies.apple_oauth_state)
                THEN Rejected(r, 400, "Invalid state - possible CSRF attack")
                ELSE IF ~Truthy(body.code)
                THEN Rejected(r, 400, "Missing authorization code")
                ELSE [r EXCEPT !.pc = "exchange"]
        /\ UNCHANGED <<users, sessions, now, nextUid, nextSid, op, out, db, game>>

\* const tokens = await exchangeAppleCode(code, redirectUri)
CallbackExchange ==
    LET r == inflight
        tokens == exchangeAppleCode(r.config, r.body.code, r.config.appUrl,
                                    r.response)
        sent == [r EXCEPT !.fetched = tokens.fetched]
    IN  /\ r.pc = "exchange"
        /\ inflight' =
                IF tokens.status # 200
                THEN Rejected(sent, tokens.status, tokens.message)
                ELSE [sent EXCEPT !.pc = "decode",
                                  !.idToken = IF tokens.id_token # NoToken
                                              THEN tokens.id_token
                                              ELSE r.body.id_token]
        /\ UNCHANGED <<users, sessions, now, nextUid, nextSid, cookies, op, out, db, game>>

\* decodeAppleIdToken(tokens.id_token || id_token) and the check of the email
CallbackDecode ==
    LET r == inflight
        decoded == decodeAppleIdToken(r.config, r.idToken, now)
    IN  /\ r.pc = "decode"
        /\ inflight' =
                IF decoded.status # 200
                THEN Rejected(r, decoded.status, decoded.message)
                ELSE IF decoded.payload.email = <<>>
                THEN Rejected(r, 400, "Apple did not provide an email address")
                ELSE [r EXCEPT !.pc = "find", !.payload = decoded.payload]
        /\ UNCHANGED <<users, sessions, now, nextUid, nextSid, cookies, op, out, db, game>>

\* const user = await findOrCreateOAuthUser({email, name, appleId: sub})
CallbackFindOrCreate ==
    LET r == inflight
        name == IF Truthy(r.body.user) THEN ParseUserName(r.body.user) ELSE NULL
        found == findOrCreateOAuthUser(users, nextUid, r.payload.email, name,
                                       r.payload.sub)
        made == Cardinality(found.users) - Cardinality(users)
    IN  /\ r.pc = "find"
        /\ made = 0 \/ nextUid <= MaxUsers
        /\ users' = found.users
        /\ nextUid' = nextUid + made
        /\ inflight' =
                IF found.err THEN Rejected(r, 500, "SQLITE_CONSTRAINT")
                ELSE [r EXCEPT !.pc = "session", !.user = found.user,
                               !.inserted = made]
        /\ UNCHANGED <<sessions, now, nextSid, cookies, op, out, db, game>>

\* const sessionId = await createSession(user.id); setCookie; sendRedirect
CallbackCreateSession ==
    LET r == inflight
        cs == createSession(users, sessions, nextSid, r.user.id, now)
    IN  /\ r.pc = "session"
        /\ cs.err \/ nextSid <= MaxSessions
        /\ sessions' = cs.sessions
        /\ nextSid' = IF cs.err THEN nextSid ELSE nextSid + 1
        /\ inflight' =
                IF cs.err THEN Rejected(r, 500, "SQLITE_CONSTRAINT")
                ELSE [r EXCEPT !.pc = "done",
                               !.out = Out(302, r.user, cs.sid, "set", r.inserted,
                                           0, r.fetched, "")]
        /\ UNCHANGED <<users, now, nextUid, cookies, op, out, db, game>>

\* The response is sent; the next callback may arrive.
CallbackRespond ==
    /\ inflight.pc = "done"
    /\ inflight' = NewCallback
    /\ UNCHANGED <<users, sessions, now, nextUid, nextSid, cookies, op, out, db, game>>

\* The sign-in start handler served between two callbacks.
FlowStart(state) ==
    /\ inflight.pc = "new"
    /\ cookies' = [apple_oauth_state |-> state]
    /\ UNCHANGED <<users, sessions, now, nextUid, nextSid, op, out, inflight, db, game>>

\* Time passes between two callbacks.
FlowTick(t) ==
    /\ inflight.pc = "new"
    /\ t > now
    /\ now' = t
    /\ UNCHANGED <<users, sessions, nextUid, nextSid, cookies, op, out, inflight, db, game>>

NextFlow ==
    \/ \E r \in CallbackRequests : CallbackStateCheck(r[1], r[2], r[3])
    \/ CallbackExchange
    \/ CallbackDecode
    \/ CallbackFindOrCreate
    \/ CallbackCreateSession
    \/ CallbackRespond
    \/ \E state \in StateTokens : FlowStart(state)
    \/ \E t \in RequestInstants : FlowTick(t)

SpecFlow == InitFlow /\ [][NextFlow]_vars

\* ------------------------------------------------- the signature reformatter
\* derToRaw of apple-auth.ts on byte arrays, a byte being a number 0..255.

RAW_LENGTH == 64
COORD_LENGTH == 32
DER_INTEGER == 2
DER_SEQUENCE == 48

\* der[k] for a zero-based index k: -1 stands for undefined, past the end.
ByteAt(der, k) == IF k >= 0 /\ k < Len(der) THEN der[k + 1] ELSE -1
\* der[k] || 0
ByteOrZero(der, k) == IF ByteAt(der, k) < 0 THEN 0 ELSE ByteAt(der, k)
\* der.subarray(from, to), both ends clamped to the array.
Subarray(der, from, to) ==
    LET lo == IF from > Len(der) THEN Len(der) ELSE from
        hi == IF to > Len(der) THEN Len(der) ELSE to
    IN  IF hi <= lo THEN <<>> ELSE SubSeq(der, lo + 1, hi)
\* raw.set(bytes, at)
SetBytes(raw, bytes, at) ==
    [i \in 1..Len(raw) |->
        IF i > at /\ i <= at + Len(bytes) THEN bytes[i - at] ELSE raw[i]]
Min(a, b) == IF a < b THEN a ELSE b

\* The length and the position of an INTEGER's bytes, given the position of
\* its length byte: a 33-byte value that starts with 0x00 loses that byte.
IntegerAt(der, lenPos) ==
    LET declared == ByteOrZero(der, lenPos)
        padded == declared = COORD_LENGTH + 1 /\ ByteAt(der, lenPos + 1) = 0
    IN  [from |-> IF padded THEN lenPos + 2 ELSE lenPos + 1,
         len |-> IF padded THEN COORD_LENGTH ELSE declared]

\* The reformatter that does not look at the tag of s.
derToRaw_NoSTagCheck(der) ==
    LET r == IntegerAt(der, 3)
        rN == Min(r.len, COORD_LENGTH)
        sTag == r.from + r.len
        s == IntegerAt(der, sTag + 1)
        sN == Min(s.len, COORD_LENGTH)
        zeros == [i \in 1..RAW_LENGTH |-> 0]
        withR == SetBytes(zeros, Subarray(der, r.from, r.from + rN),
                          COORD_LENGTH - rN)
    IN  IF Len(der) = RAW_LENGTH THEN [err |-> FALSE, raw |-> der]
        ELSE IF ByteAt(der, 2) # DER_INTEGER THEN [err |-> TRUE, raw |-> <<>>]
        ELSE [err |-> FALSE,
              raw |-> SetBytes(withR, Subarray(der, s.from, s.from + sN),
                               RAW_LENGTH - sN)]

derToRaw(der) ==
    LET r == IntegerAt(der, 3)
        rN == Min(r.len, COORD_LENGTH)
        sTag == r.from + r.len
        s == IntegerAt(der, sTag + 1)
        sN == Min(s.len, COORD_LENGTH)
        zeros == [i \in 1..RAW_LENGTH |-> 0]
        withR == SetBytes(zeros, Subarray(der, r.from, r.from + rN),
                          COORD_LENGTH - rN)
    IN  IF Len(der) = RAW_LENGTH THEN [err |-> FALSE, raw |-> der]
        ELSE IF ByteAt(der, 2) # DER_INTEGER THEN [err |-> TRUE, raw |-> <<>>]
        ELSE IF ByteAt(der, sTag) # DER_INTEGER THEN [err |-> TRUE, raw |-> <<>>]
        ELSE [err |-> FALSE,
              raw |-> SetBytes(withR, Subarray(der, s.from, s.from + sN),
                               RAW_LENGTH - sN)]

\* The signatures: r and s are positive integers of 1 to 32 bytes, written
\* big-endian without leading zero bytes.
Fill(n, first, rest) == [i \in 1..n |-> IF i = 1 THEN first ELSE rest]
Coordinates ==
    {Fill(n, first, 165) : n \in {1, 29, 31, COORD_LENGTH},
                           first \in {1, 127, 128, 255}}
\* The DER INTEGER of a coordinate: tag, length, a 0x00 sign byte when the top
\* bit is set, the bytes.
DerInteger(c) ==
    LET body == IF c[1] >= 128 THEN <<0>> \o c ELSE c
    IN  <<DER_INTEGER, Len(body)>> \o body
\* The DER encoding of the signature (r, s).
DerSignature(r, s) ==
    LET body == DerInteger(r) \o DerInteger(s)
    IN  <<DER_SEQUENCE, Len(body)>> \o body
\* Inputs that are no DER signature: a wrong tag for r, a wrong tag for s, an
\* input cut short, the empty input.
BadDer ==
    { [DerSignature(r, s) EXCEPT ![3] = 3] : r \in Coordinates, s \in {Fill(1, 1, 0)} }
    \cup { [DerSignature(r, s) EXCEPT ![5 + DerInteger(r)[2]] = 4] :
              r \in Coordinates, s \in {Fill(COORD_LENGTH, 255, 165)} }
    \cup { SubSeq(DerSignature(r, r), 1, n) :
              r \in {Fill(1, 1, 0), Fill(COORD_LENGTH, 128, 165)}, n \in 0..5 }
DerInputs ==
    {DerSignature(r, s) : r \in Coordinates, s \in Coordinates}
    \cup {Fill(RAW_LENGTH, first, 90) : first \in {0, DER_SEQUENCE}}
    \cup BadDer

CallDerToRaw(der) ==
    /\ op' = [fn |-> "derToRaw", der |-> der]
    /\ out' = derToRaw(der)
    /\ UNCHANGED <<users, sessions, now, nextUid, nextSid, cookies, inflight, db, game>>

NextDer == \E der \in DerInputs : CallDerToRaw(der)

SpecDer == Init /\ [][NextDer]_vars

\* ------------------------------------------------- calls of the database module
\* initDatabase, useDatabase and the middleware that initialises the handle
\* from the request's environment, called in any order; out.log lists what
\* each call returned.

Bindings == {"DB1", "DB2"}

Logged(fn, arg, err, handle) ==
    [log |-> Append(IF op.fn = "idle" THEN <<>> ELSE out.log,
                    [fn |-> fn, arg |-> arg, err |-> err, handle |-> handle])]
CallsLeft == IF op.fn = "idle" THEN TRUE ELSE Len(out.log) < MaxCalls

CallInitDatabase(d1) ==
    /\ CallsLeft
    /\ db' = initDatabase(db, d1)
    /\ op' = [fn |-> "initDatabase", d1 |-> d1]
    /\ out' = Logged("initDatabase", d1, FALSE, Handle(db'))
    /\ UNCHANGED <<users, sessions, now, nextUid, nextSid, cookies, inflight, game>>

CallUseDatabase ==
    /\ CallsLeft
    /\ op' = [fn |-> "useDatabase"]
    /\ out' = Logged("useDatabase", NULL, useDatabase(db).err, useDatabase(db).handle)
    /\ UNCHANGED <<users, sessions, now, nextUid, nextSid, cookies, inflight, db, game>>

\* The middleware: initDatabase(d1) when the environment has a binding.
D1Middleware(d1) ==
    /\ CallsLeft
    /\ db' = IF Truthy(d1) THEN initDatabase(db, d1) ELSE db
    /\ op' = [fn |-> "middleware", d1 |-> d1]
    /\ out' = Logged("middleware", d1, FALSE, NoHandle)
    /\ UNCHANGED <<users, sessions, now, nextUid, nextSid, cookies, inflight, game>>

NextDb ==
    \/ \E d1 \in Bindings : CallInitDatabase(d1)
    \/ CallUseDatabase
    \/ \E d1 \in Bindings \cup {NULL} : D1Middleware(d1)

SpecDb == Init /\ [][NextDb]_vars

\* ------------------------------------------------- the session functions
\* The session functions against a store that holds one user created by
\* createUser and one created by findOrCreateOAuthUser.

SeedUsers ==
    LET first == createUser({}, 1, <<"a", "@", "x">>, "password1", "Ann", <<17>>)
    IN  findOrCreateOAuthUser(first.users, 2, <<"b", "@", "x">>, NULL, "p1").users

InitSessions ==
    /\ users = SeedUsers
    /\ sessions = {}
    /\ now = 0
    /\ nextUid = Cardinality(SeedUsers) + 1
    /\ nextSid = 1
    /\ cookies = NoCookies
    /\ op = [fn |-> "idle"]
    /\ out = NoOut
    /\ inflight = <<>>
    /\ db = NoDatabase
    /\ game = NewGame

NextSessions ==
    \/ \E userId \in 1..(Cardinality(SeedUsers) + 1) : CallCreateSession(userId)
    \/ \E sessionId \in 1..MaxSessions : CallValidateSession(sessionId)
    \/ \E sessionId \in 1..MaxSessions : CallDeleteSession(sessionId)
    \/ \E t \in Instants : Tick(t)

SpecSessions == InitSessions /\ [][NextSessions]_vars

\* ------------------------------------------------------- session properties

HasSession(S, id) == \E s \in S : s.id = id
SessionRow(S, id) == CHOOSE s \in S : s.id = id
HasUser(U, id) == \E u \in U : u.id = id

\* C3: validateSession(id) called right after createSession(userId) for an
\* existing user returns that same user, whichever user it is and whatever
\* other sessions the store holds; createSession for an existing user succeeds.
C3_CreateThenValidate ==
    [][ /\ (op'.fn = "createSession" /\ HasUser(users, op'.userId))
            => (out'.status = 200 /\ out'.sid # NoId)
        /\ (/\ op.fn = "createSession"
            /\ HasUser(users, op.userId)
            /\ op'.fn = "validateSession"
            /\ op'.sessionId = out.sid)
            => (out'.user.id = op.userId /\ out'.user \in users) ]_vars

C3_Witness ==
    /\ op.fn = "validateSession"
    /\ op.sessionId = nextSid - 1
    /\ HasSession(sessions, op.sessionId)
    /\ SessionRow(sessions, op.sessionId).createdAt = now
    /\ out.user.id = SessionRow(sessions, op.sessionId).userId
    /\ Cardinality(sessions) >= 2

\* C4: when a session's expiry is in the past, validateSession returns null
\* and removes the row; validating an id that has no row returns null and
\* changes nothing; a removed row never comes back and an expired row is
\* never changed, so that id never validates to a user again.
C4_ExpiredNeverValidates ==
    [][ /\ (/\ op'.fn = "validateSession"
            /\ HasSession(sessions, op'.sessionId)
            /\ SessionRow(sessions, op'.sessionId).expiresAt < now)
            => (/\ out'.user = NoUser
                /\ ~HasSession(sessions', op'.sessionId)
                /\ sessions' = {s \in sessions : s.id # op'.sessionId})
        /\ (op'.fn = "validateSession" /\ ~HasSession(sessions, op'.sessionId))
            => (out'.user = NoUser /\ sessions' = sessions)
        /\ \A id \in 1..(nextSid - 1) :
            ~HasSession(sessions, id) => ~HasSession(sessions', id)
        /\ \A s \in sessions :
            s.expiresAt < now => \A s2 \in sessions' : s2.id = s.id => s2 = s
        /\ now' >= now ]_vars

C4_Witness ==
    /\ op.fn = "validateSession"
    /\ op.sessionId < nextSid
    /\ ~HasSession(sessions, op.sessionId)
    /\ out.user = NoUser
    /\ sessions # {}
    /\ \A s \in sessions : s.expiresAt >= now

\* C5: a session created at time t validates to its user at every time up to
\* and including t + 30 days and to null at every later time.
C5_ValidForThirtyDays ==
    [][ (op'.fn = "validateSession" /\ HasSession(sessions, op'.sessionId))
            => LET s == SessionRow(sessions, op'.sessionId)
               IN  IF now <= s.createdAt + SESSION_EXPIRY_MS
                   THEN out'.user.id = s.userId
                   ELSE out'.user = NoUser ]_vars

\* C6: deleteSession(id) removes the row with that id if there is one, leaves
\* every other row and every user alone, never throws, and a second call with
\* the same id changes nothing.
C6_DeleteIdempotent ==
    [][ /\ op'.fn = "deleteSession"
            => (/\ out'.status = 200
                /\ sessions' = {s \in sessions : s.id # op'.sessionId}
                /\ users' = users)
        /\ (/\ op.fn = "deleteSession"
            /\ op'.fn = "deleteSession"
            /\ op'.sessionId = op.sessionId)
            => sessions' = sessions ]_vars

C6_Witness ==
    /\ op.fn = "deleteSession"
    /\ op.sessionId < nextSid
    /\ ~HasSession(sessions, op.sessionId)
    /\ sessions # {}

\* ---------------------------------------------------------- user properties

\* C8: every user row has at least one authentication method, a password
\* digest or a provider id.
C8_AuthMethod ==
    \A u \in users : u.passwordHash # <<>> \/ u.appleId # NULL

\* C9: when findOrCreateOAuthUser finds a user without a provider id and is
\* given one, the record it returns carries the supplied provider id, and so
\* does the stored row.
C9_ReturnsLinkedRecord ==
    [][ (/\ op'.fn = "findOrCreateOAuthUser"
         /\ Truthy(op'.appleId)
         /\ \E u \in users :
                u.email = NormalizeEmail(op'.email) /\ ~Truthy(u.appleId))
            => (/\ out'.user.appleId = op'.appleId
                /\ \E u \in users' : u.id = out'.user.id /\ u = out'.user) ]_vars

\* The inputs that name one address: the same email up to letter case and
\* surrounding whitespace.
Addresses ==
    { { <<"a", "@", "x">>, <<"A", "@", "X">>, <<" ", "A", "@", "X", " ">> },
      { <<"b", "@", "x">> } }
SameAddress(e1, e2) == \E a \in Addresses : e1 \in a /\ e2 \in a

\* C10: findOrCreateOAuthUser with a provider id, for an address no row holds
\* (and a provider id no row holds), inserts exactly one row, with no digest
\* and that provider id; a second call right after it with the same address in
\* any letter case or whitespace, and a provider id, returns the same user id
\* and inserts nothing.
C10_FindOrCreateTwice ==
    [][ /\ (/\ op'.fn = "findOrCreateOAuthUser"
            /\ Truthy(op'.appleId)
            /\ \A u \in users :
                ~SameAddress(u.email, op'.email) /\ u.appleId # op'.appleId)
            => (/\ out'.status = 200
                /\ out'.user \notin users
                /\ users' = users \cup {out'.user}
                /\ out'.user.passwordHash = <<>>
                /\ out'.user.appleId = op'.appleId
                /\ SameAddress(out'.user.email, op'.email))
        /\ (/\ op.fn = "findOrCreateOAuthUser"
            /\ Truthy(op.appleId)
            /\ out.status = 200
            /\ op'.fn = "findOrCreateOAuthUser"
            /\ SameAddress(op'.email, op.email)
            /\ Truthy(op'.appleId))
            => (/\ out'.status = 200
                /\ out'.user.id = out.user.id
                /\ users' = users) ]_vars

C10_Witness ==
    /\ op.fn = "findOrCreateOAuthUser"
    /\ Truthy(op.appleId)
    /\ out.status = 200
    /\ out.inserted = 0
    /\ op.email # out.user.email
    /\ users = {out.user}
    /\ out.user.passwordHash = <<>>
    /\ out.user.appleId = op.appleId

\* ------------------------------------------------------- request properties

\* C1: a callback whose state field is absent, whose stored state cookie is
\* absent, or whose state differs from the stored cookie is answered 400,
\* whatever its code: it sends no token request to the provider and leaves
\* the users and the sessions as they were.
C1_CsrfRejected ==
    [][ (/\ op'.fn = "appleCallback"
         /\ \/ op'.body.state = NULL
            \/ cookies.apple_oauth_state = NULL
            \/ op'.body.state # cookies.apple_oauth_state)
            => (/\ out'.status = 400
                /\ out'.fetched = 0
                /\ users' = users
                /\ sessions' = sessions) ]_vars

C1_Witness ==
    /\ op.fn = "appleCallback"
    /\ op.storedState \in StateTokens
    /\ op.body.state \in StateTokens
    /\ op.body.state # op.storedState
    /\ op.body.code = "c1"
    /\ op.response.ok
    /\ out.status = 400

\* The user a request authenticates: signup, the one row it inserted, for the
\* address it names; login, the row of the address whose digest verifies the
\* password; callback, for a request that passed the state check, the code
\* exchange and the token validation with an email claim, the row of that
\* address.
Authenticated(request, owner, U, V, storedState, t) ==
    CASE request.fn = "signup" ->
            /\ V \ U = {owner}
            /\ SameAddress(owner.email, request.body.email)
      [] request.fn = "login" ->
            /\ owner \in U
            /\ SameAddress(owner.email, request.body.email)
            /\ verifyPassword(request.body.password, owner.passwordHash)
      [] request.fn = "appleCallback" ->
            LET idToken == IF request.response.id_token # NoToken
                           THEN request.response.id_token
                           ELSE request.body.id_token
            IN  /\ Truthy(storedState)
                /\ request.body.state = storedState
                /\ Truthy(request.body.code)
                /\ request.response.ok
                /\ decodeAppleIdToken(request.config, idToken, t).status = 200
                /\ idToken.email # <<>>
                /\ owner \in V
                /\ SameAddress(owner.email, idToken.email)
      [] OTHER -> FALSE

\* C2: a session row appears only in a request that authenticated (signup,
\* login or callback answered 200 / 302), one row per request, owned by the
\* user the request authenticated and named by the session cookie it sets; a
\* request answered with an error adds no session row.
C2_SessionsFromAuthentication ==
    [][ /\ \A s \in sessions' \ sessions :
            /\ out'.status \in {200, 302}
            /\ sessions' = sessions \cup {s}
            /\ out'.sid = s.id
            /\ out'.cookie = "set"
            /\ \E owner \in users' :
                /\ owner.id = s.userId
                /\ Authenticated(op', owner, users, users',
                                 cookies.apple_oauth_state, now)
        /\ out'.status >= 400 => sessions' \subseteq sessions ]_vars

C2_Witness ==
    /\ op.fn = "appleCallback"
    /\ out.status = 302
    /\ HasSession(sessions, out.sid)
    /\ \E s \in sessions :
        /\ s.id # out.sid
        /\ s.userId # SessionRow(sessions, out.sid).userId

\* C7: logout answers 200 whatever the session cookie is (absent, unknown,
\* expired or live); afterwards no row has the cookie's id, so it validates
\* to null, and every other session and every user is as before.
C7_LogoutAlwaysSucceeds ==
    [][ op'.fn = "logout"
            => (/\ out'.status = 200
                /\ ~HasSession(sessions', op'.cookie)
                /\ validateSession(users', sessions', op'.cookie, now').user = NoUser
                /\ sessions' = {s \in sessions : s.id # op'.cookie}
                /\ users' = users) ]_vars

C7_Witness ==
    /\ op.fn = "logout"
    /\ out.status = 200
    /\ out.deleted = 1
    /\ sessions # {}

\* The requests the schema of signup admits: an email without whitespace and
\* a password of eight characters or more.
SignupSchemaOk(body) ==
    /\ \A i \in 1..Len(body.email) : body.email[i] # " "
    /\ \E i \in 2..(Len(body.email) - 1) : body.email[i] = "@"
    /\ Len(body.password) >= 8

SignupsOf(a) ==
    {p \in Procs : inflight[p].pc # "new" /\ SignupSchemaOk(inflight[p].body)
                                          /\ inflight[p].body.email \in a}

\* C12: once two or more signup requests for one address, served concurrently
\* against an empty store, are all answered, exactly one of them was answered
\* 200 and every other one 409; one user row has the address, and one session
\* exists for it, the one of the request answered 200.
C12_ConcurrentSignup ==
    \A a \in Addresses :
        (/\ Cardinality(SignupsOf(a)) >= 2
         /\ \A p \in SignupsOf(a) : inflight[p].pc = "done")
            => /\ \E w \in SignupsOf(a) :
                    /\ inflight[w].out.status = 200
                    /\ \A p \in SignupsOf(a) \ {w} : inflight[p].out.status = 409
                    /\ {s.id : s \in {s \in sessions : SameAddress(
                            getUserById(users, s.userId).email,
                            inflight[w].body.email)}} = {inflight[w].out.sid}
               /\ Cardinality({u \in users : u.email \in a}) = 1

\* C13: every stored email is in normalized form (no upper-case letter, no
\* whitespace at either end) and no two user rows have the same email, after
\* any sequence of createUser and findOrCreateOAuthUser calls with emails in
\* any letter case and with surrounding whitespace.
C13_EmailsNormalizedUnique ==
    /\ \A u \in users :
        /\ u.email # <<>>
        /\ \A i \in 1..Len(u.email) : u.email[i] \notin {"A", "B", "X"}
        /\ u.email[1] # " " /\ u.email[Len(u.email)] # " "
    /\ \A u, v \in users : u.email = v.email => u = v

C13_Witness ==
    /\ op.fn \in {"createUser", "findOrCreateOAuthUser"}
    /\ op.email = <<" ", "A", "@", "X", " ">>
    /\ out.inserted = 1
    /\ out.user.email = <<"a", "@", "x">>
    /\ Cardinality(users) = 2

\* C14: verifyCredentials called right after a createUser(e, p) that
\* succeeded, with an email that names the same address as e in any letter
\* case or surrounding whitespace, returns the user createUser returned when
\* given p, and null when given another password.
C14_SignupThenVerify ==
    [][ (/\ op.fn = "createUser"
         /\ out.status = 200
         /\ op'.fn = "verifyCredentials"
         /\ SameAddress(op'.email, op.email))
            => IF op'.password = op.password
               THEN out'.user = out.user /\ out'.user \in users'
               ELSE out'.user = NoUser ]_vars

C14_Witness ==
    /\ op.fn = "verifyCredentials"
    /\ op.email = <<" ", "A", "@", "X", " ">>
    /\ op.password = "password2"
    /\ out.user \in users
    /\ out.user.email = <<"a", "@", "x">>
    /\ \E u \in users : u # out.user /\ u.passwordHash # <<>>

\* The requests the schema of login admits.
LoginSchemaOk(body) ==
    /\ \A i \in 1..Len(body.email) : body.email[i] # " "
    /\ \E i \in 2..(Len(body.email) - 1) : body.email[i] = "@"
    /\ Len(body.password) >= 1

\* The three ways a login fails: no user has the address; the user of the
\* address has no digest; the user's digest does not verify the password.
LoginFailure(body, U) ==
    CASE ~ \E u \in U : SameAddress(u.email, body.email) -> "no user"
      [] \E u \in U : SameAddress(u.email, body.email) /\ u.passwordHash = <<>>
            -> "no digest"
      [] \E u \in U : /\ SameAddress(u.email, body.email)
                      /\ ~verifyPassword(body.password, u.passwordHash)
            -> "wrong password"
      [] OTHER -> "none"

\* C15: a login request the schema admits that fails for any of the three
\* reasons gets one and the same response: verifyCredentials returns null, the
\* status is 401 with the one generic message, no session cookie is set and
\* the users and the sessions are as before.
C15_LoginFailuresAlike ==
    [][ (/\ op'.fn = "login"
         /\ LoginSchemaOk(op'.body)
         /\ LoginFailure(op'.body, users) # "none")
            => (/\ verifyCredentials(users, op'.body.email, op'.body.password) = NoUser
                /\ out' = Out(401, NoUser, NoId, "keep", 0, 0, 0,
                              "Invalid email or password")
                /\ sessions' = sessions
                /\ users' = users) ]_vars

C15_Witness ==
    /\ op.fn = "login"
    /\ out.status = 401
    /\ LoginFailure(op.body, users) = "no digest"
    /\ \E b \in LoginBodies : LoginFailure(b, users) = "wrong password"

\* ------------------------------------------------ password hasher properties

\* C16: verifyPassword(p, s) called on the string s that the hashPassword(q)
\* just before returned is true exactly when p = q, for every salt
\* hashPassword drew.
C16_VerifyIffSamePassword ==
    [][ (/\ op.fn = "hashPassword"
         /\ op'.fn = "verifyPassword"
         /\ op'.stored = out.digest)
            => (out'.valid <=> op'.password = op.password) ]_vars

C16_Witness ==
    /\ op.fn = "verifyPassword"
    /\ op.stored \in Digests
    /\ op.stored[1] = "0" /\ op.stored[2] = "1" /\ op.stored[3] = "0"
    /\ out.valid

\* A stored string of the digest form: two non-empty fields of hexadecimal
\* digits separated by the one colon of the string.
HexChars ==
    {"0", "1", "2", "3", "4", "5", "6", "7", "8", "9", "a", "b", "c", "d", "e", "f"}
DigestForm(stored) ==
    \E k \in 2..(Len(stored) - 1) :
        /\ stored[k] = ":"
        /\ \A i \in (1..Len(stored)) \ {k} : stored[i] \in HexChars

\* C17: verifyPassword returns false, for every password, on a stored string
\* that is not of the digest form.
C17_MalformedRejected ==
    [][ (op'.fn = "verifyPassword" /\ ~DigestForm(op'.stored))
            => ~out'.valid ]_vars

\* C18: two calls of hashPassword in a row with the same password, which drew
\* two different salts, return two different strings, and verifyPassword
\* accepts the password against both.
C18_SaltedTwice ==
    [][ (/\ op.fn = "hashPassword"
         /\ op'.fn = "hashPassword"
         /\ op'.password = op.password
         /\ op'.salt # op.salt)
            => (/\ out'.digest # out.digest
                /\ verifyPassword(op.password, out.digest)
                /\ verifyPassword(op.password, out'.digest)) ]_vars

C18_Witness ==
    /\ op.fn = "hashPassword"
    /\ op.salt = <<171>>
    /\ verifyPassword(op.password, out.digest)
    /\ \E salt \in HashSalts :
        /\ hashPassword(op.password, salt) # out.digest
        /\ verifyPassword(op.password, hashPassword(op.password, salt))

\* ---------------------------------------------------- token decoder properties

\* The call in the current state is a decodeAppleIdToken of a three-part token.
Decoded == op.fn = "decodeAppleIdToken" /\ op.idToken # NoToken /\ op.idToken.parts = 3
IssuerOk == op.idToken.iss = "https://appleid.apple.com"
AudienceOk == op.idToken.aud = op.config.appleClientId
\* The exp claim, in seconds, is not before the second the clock is in.
NotExpired == (op.idToken.exp + 1) * UNITS_PER_SECOND > now

\* C19: decodeAppleIdToken returns the payload exactly when the issuer is the
\* provider's, the audience is the configured client id and the exp claim the
\* token carries is not in the past; otherwise it answers 400 with the
\* message of the first failing check in the order issuer, audience, expiry,
\* and the three messages differ.
C19_ClaimChecksInOrder ==
    Decoded =>
        /\ out.status = 200 <=>
                (IssuerOk /\ AudienceOk /\ (op.idToken.exp = ExpAbsent \/ NotExpired))
        /\ out.status = 200 => out.payload = op.idToken
        /\ out.status # 200 => out.status = 400 /\ out.payload = NoToken
        /\ ~IssuerOk => out.message = "Invalid Apple ID token issuer"
        /\ (IssuerOk /\ ~AudienceOk) => out.message = "Invalid Apple ID token audience"
        /\ (IssuerOk /\ AudienceOk /\ op.idToken.exp # ExpAbsent /\ ~NotExpired)
                => out.message = "Apple ID token has expired"

C19_Witness ==
    /\ Decoded
    /\ ~IssuerOk /\ ~AudienceOk /\ op.idToken.exp # ExpAbsent /\ ~NotExpired
    /\ op.config = FullConfig
    /\ out.message = "Invalid Apple ID token issuer"

\* C20: decodeAppleIdToken accepts a token only when it carries an exp claim
\* strictly later than the current second.
C20_ExpStrictlyLater ==
    (Decoded /\ out.status = 200)
        => (op.idToken.exp # ExpAbsent /\ op.idToken.exp * UNITS_PER_SECOND > now)

\* ------------------------------------------------------- callback flow properties

\* The steps of the flow follow one another in the order state check, code
\* exchange, token decode, find-or-create, session creation; a callback leaves
\* the order only by being answered, with an error unless it ran its last
\* step; the provider, the users and the sessions are touched only by the
\* exchange, the find-or-create and the session step.
FlowOrder ==
    LET a == inflight.pc
        b == inflight'.pc
    IN  /\ (a = "new" /\ b # a) => b \in {"exchange", "done"}
        /\ (a = "exchange" /\ b # a) => b \in {"decode", "done"}
        /\ (a = "decode" /\ b # a) => b \in {"find", "done"}
        /\ (a = "find" /\ b # a) => b \in {"session", "done"}
        /\ (a = "session" /\ b # a) => b = "done"
        /\ (a = "done" /\ b # a) => b = "new"
        /\ (b = "done" /\ a # b)
                => (inflight'.out.status = 302 <=> (a = "session" /\ sessions' # sessions))
        /\ (b = "done" /\ a # b /\ inflight'.out.status # 302)
                => inflight'.out.status >= 400
        /\ inflight'.fetched # inflight.fetched => (a = "exchange" \/ b = "new")
        /\ users' # users => (a = "find" /\ b = "session")
        /\ sessions' # sessions => (a = "session" /\ b = "done")

\* The callback arriving in this step passes the state check.
StateMatches ==
    /\ inflight'.body.state # NULL
    /\ inflight'.storedState # NULL
    /\ inflight'.body.state = inflight'.storedState

\* C21 as stated: a callback whose state matches the stored cookie always
\* proceeds to the code exchange, and the steps keep their order.
C21_StateOkProceeds ==
    [][ /\ (inflight.pc = "new" /\ inflight'.pc # "new" /\ StateMatches)
            => inflight'.pc = "exchange"
        /\ FlowOrder ]_vars

\* C21: a callback proceeds from the state check to the code exchange exactly
\* when its state matches the stored cookie and it carries a code (a callback
\* without a code is answered 400 before the exchange), and the steps keep
\* their order: no later step runs unless every earlier one succeeded.
C21_FlowInOrder ==
    [][ /\ (inflight.pc = "new" /\ inflight'.pc # "new")
            => (inflight'.pc = "exchange"
                    <=> (StateMatches /\ inflight'.body.code # NULL))
        /\ FlowOrder ]_vars

C21_Witness ==
    /\ inflight.pc = "done"
    /\ inflight.out.status = 302
    /\ inflight.inserted = 1
    /\ inflight.fetched = 1
    /\ Cardinality(sessions) = 2

\* ------------------------------------------------- callback request properties

\* The identity token a callback request decodes.
CallbackToken(request) ==
    IF request.response.id_token # NoToken THEN request.response.id_token
    ELSE request.body.id_token

\* A callback request that passes the state check against the stored cookie,
\* the code exchange and the validation of the identity token at time t.
PassesValidation(request, storedState, t) ==
    /\ request.fn = "appleCallback"
    /\ request.body.state # NULL /\ request.body.state = storedState
    /\ request.body.code # NULL
    /\ \A f \in {"appleTeamId", "appleClientId", "appleKeyId", "appleSecretKey"} :
            request.config[f] # NULL
    /\ request.response.ok
    /\ decodeAppleIdToken(request.config, CallbackToken(request), t).status = 200

\* C22: a callback that passes the state check, the code exchange and the
\* token validation, and whose token has no email claim, is answered 400; no
\* user row is created or changed and no session is created.
C22_NoEmailRejected ==
    [][ (/\ PassesValidation(op', cookies.apple_oauth_state, now)
         /\ CallbackToken(op').email = <<>>)
            => (/\ out'.status = 400
                /\ users' = users
                /\ sessions' = sessions) ]_vars

C22_Witness ==
    /\ PassesValidation(op, op.storedState, now)
    /\ CallbackToken(op).email = <<>>
    /\ CallbackToken(op).sub = "p1"
    /\ out.status = 400
    /\ users # {}

\* C23: a callback sends at most one token request to the provider; when the
\* provider answers it with a non-2xx status the callback is answered with an
\* error whose message carries the provider's response body, exactly one
\* request was sent, and no user or session row is created.
C23_ExchangeOnce ==
    [][ /\ op'.fn = "appleCallback" => out'.fetched <= 1
        /\ (/\ op'.fn = "appleCallback"
            /\ out'.fetched > 0
            /\ ~op'.response.ok)
            => (/\ out'.fetched = 1
                /\ out'.status = 400
                /\ out'.message = "Apple token exchange failed: " \o op'.response.body
                /\ users' = users
                /\ sessions' = sessions) ]_vars

C23_Witness ==
    /\ op.fn = "appleCallback"
    /\ ~op.response.ok
    /\ out.fetched = 1
    /\ out.message = "Apple token exchange failed: invalid_grant"
    /\ users # {}

\* C24: a callback that reaches the code exchange while the team id, the
\* client id, the key id, the private key or the public base URL is missing
\* is answered 500; no request is sent to the provider and no user or session
\* is created.
C24_MissingConfigFatal ==
    [][ (/\ op'.fn = "appleCallback"
         /\ op'.body.state # NULL
         /\ op'.body.state = cookies.apple_oauth_state
         /\ op'.body.code # NULL
         /\ \E f \in {"appleTeamId", "appleClientId", "appleKeyId",
                       "appleSecretKey", "appUrl"} : op'.config[f] = NULL)
            => (/\ out'.status = 500
                /\ out'.fetched = 0
                /\ users' = users
                /\ sessions' = sessions) ]_vars

\* ------------------------------------------------ signature reformatter properties

\* A coordinate as the 32-byte big-endian value left-padded with zeros.
LeftPadded(c) == [i \in 1..COORD_LENGTH |-> 0] \o c
Padded32(c) == SubSeq(LeftPadded(c), Len(c) + 1, Len(c) + COORD_LENGTH)

\* C25: for every signature (r, s), derToRaw of its DER encoding returns the
\* 64 bytes r, left-padded with zeros to 32 bytes, followed by s in the same
\* form.
C25_DerToRawDecodes ==
    \A r, s \in Coordinates :
        (op.fn = "derToRaw" /\ op.der = DerSignature(r, s))
            => (~out.err /\ out.raw = Padded32(r) \o Padded32(s))

\* The position of the tag of s: past the tag, the length byte and the
\* declared length of r.
STagPosition(der) == 4 + (IF Len(der) > 3 THEN der[4] ELSE 0)

\* C26: on an input that is not 64 bytes long and whose byte at the position
\* of r's tag or of s's tag is not 0x02, derToRaw throws and returns nothing.
C26_BadTagThrows ==
    (/\ op.fn = "derToRaw"
     /\ Len(op.der) # 64
     /\ \/ Len(op.der) < 3 \/ op.der[3] # 2
        \/ Len(op.der) <= STagPosition(op.der)
        \/ op.der[STagPosition(op.der) + 1] # 2)
        => (out.err /\ out.raw = <<>>)

C26_Witness ==
    /\ op.fn = "derToRaw"
    /\ Len(op.der) > 40 /\ Len(op.der) # 64
    /\ op.der[3] = 2
    /\ op.der[4] = 33
    /\ op.der[STagPosition(op.der) + 1] = 4
    /\ out.err

\* C27: every session row's user id is the id of a user row, after any
\* sequence of signup, login, callback, current-user, protected and logout
\* requests.
C27_SessionsHaveOwners ==
    \A s \in sessions : \E u \in users : u.id = s.userId

C27_Witness ==
    /\ op.fn = "appleCallback"
    /\ out.status = 302
    /\ Cardinality(sessions) = 2
    /\ Cardinality({s.userId : s \in sessions}) = 2
    /\ now > 0

\* ----------------------------------------------------- database module properties

\* The calls made so far, and those among them that initialise the handle.
CallLog == IF op.fn \in {"initDatabase", "useDatabase", "middleware"} THEN out.log ELSE <<>>
Initialises(call) ==
    call.fn = "initDatabase" \/ (call.fn = "middleware" /\ call.arg # NULL)

\* C28: the first initialising call makes the handle, with its binding; every
\* later initDatabase, with the same or another binding, and every
\* useDatabase after it returns that same handle; useDatabase before any
\* initialisation throws; and no more than one handle is ever made.
C28_HandleCreatedOnce ==
    /\ db.made <= 1
    /\ \A i \in 1..Len(CallLog) :
        LET call == CallLog[i]
            inits == {j \in 1..i : Initialises(CallLog[j])}
            first == CHOOSE j \in inits : \A k \in inits : j <= k
        IN  /\ call.fn = "initDatabase"
                => (~call.err /\ call.handle = [instance |-> 1,
                                                binding |-> CallLog[first].arg])
            /\ call.fn = "useDatabase"
                => IF inits = {} THEN call.err /\ call.handle = NoHandle
                   ELSE ~call.err /\ call.handle = [instance |-> 1,
                                                    binding |-> CallLog[first].arg]

C28_Witness ==
    /\ Len(CallLog) = 4
    /\ CallLog[1].fn = "useDatabase" /\ CallLog[1].err
    /\ CallLog[2].fn = "initDatabase" /\ CallLog[2].arg = "DB1"
    /\ CallLog[3].fn = "initDatabase" /\ CallLog[3].arg = "DB2"
    /\ CallLog[4].fn = "useDatabase" /\ CallLog[4].handle.binding = "DB1"

\* C29: every callback, accepted or rejected, leaves no state cookie; only
\* the sign-in start sets one; and a callback that arrives while no state
\* cookie is stored, as a replay of an earlier callback's state does, is
\* answered 400 and creates no user and no session.
C29_StateSingleUse ==
    [][ /\ op'.fn = "appleCallback" => cookies'.apple_oauth_state = NULL
        /\ cookies'.apple_oauth_state \notin {NULL, cookies.apple_oauth_state}
                => op'.fn = "appleStart"
        /\ (op'.fn = "appleCallback" /\ cookies.apple_oauth_state = NULL)
                => (/\ out'.status = 400
                    /\ users' = users
                    /\ sessions' = sessions) ]_vars

C29_Witness ==
    /\ op.fn = "appleCallback"
    /\ op.storedState = NULL
    /\ op.body.state \in StateTokens
    /\ op.body.code = "c1"
    /\ op.response.ok
    /\ out.status = 400
    /\ sessions # {}

\* The stored session the cookie names is still alive and its owner exists.
ValidCookie(U, S, cookie, t) ==
    \E s \in S :
        /\ s.id = cookie
        /\ ~ (s.expiresAt < t)
        /\ HasUser(U, s.userId)

\* C30: requireAuth answers with a user, the owner of the session, exactly
\* when the cookie names a stored session that has not expired and whose
\* owner exists; otherwise it fails with 401 and no user, and it clears the
\* cookie when there was one.
C30_RequireAuth ==
    [][ op'.fn = "requireAuth" =>
          IF ValidCookie(users, sessions, op'.cookie, now)
          THEN /\ out'.status = 200
               /\ out'.user \in users
               /\ out'.user.id = SessionRow(sessions, op'.cookie).userId
               /\ out'.cookie = "keep"
          ELSE /\ out'.status = 401
               /\ out'.user = NoUser
               /\ out'.cookie = (IF op'.cookie = NoId THEN "keep" ELSE "clear") ]_vars

C30_Witness ==
    /\ op.fn = "requireAuth"
    /\ op.cookie # NoId
    /\ out.status = 401
    /\ out.user = NoUser
    /\ out.cookie = "clear"
    /\ out.deleted = 1
    /\ users # {}

\* The store's unique constraints admit what findOrCreateOAuthUser writes for
\* this email and provider id: the link of the user found by the email, or
\* the insert of a new row.
OAuthStoreAccepts(U, email, sub) ==
    IF \E u \in U : u.email = NormalizeEmail(email)
    THEN \A u, w \in U :
            (u.email = NormalizeEmail(email) /\ u.appleId = NULL /\ w # u)
                => w.appleId # sub
    ELSE \A w \in U : sub = NULL \/ w.appleId # sub

\* The `user` fields from which no name can be read.
NamelessUserJsons == {"not json", "null", "{}"}

\* C31: a callback that passes every check, whose token carries an email the
\* store accepts, and whose `user` field is no JSON, the JSON null or an
\* object without a name is answered with the redirect: one session is
\* created, for the user of the token's email, and a user created by it has
\* no name.
C31_UserFieldOptional ==
    [][ (/\ PassesValidation(op', cookies.apple_oauth_state, now)
         /\ CallbackToken(op').email # <<>>
         /\ OAuthStoreAccepts(users, CallbackToken(op').email, CallbackToken(op').sub)
         /\ op'.body.user \in NamelessUserJsons)
            => (/\ out'.status = 302
                /\ out'.user.email = NormalizeEmail(CallbackToken(op').email)
                /\ \E s \in sessions' \ sessions :
                        /\ s.userId = out'.user.id
                        /\ sessions' = sessions \cup {s}
                /\ \A u \in users' :
                        (\A w \in users : w.id # u.id) => u.name = NULL) ]_vars

C31_Witness ==
    /\ op.fn = "appleCallback"
    /\ op.body.user = "null"
    /\ out.status = 302
    /\ out.inserted = 1
    /\ out.user.name = NULL
    /\ \E s \in sessions : s.userId = out.user.id

\* C32: after a callback answered with the redirect, the owner of the session
\* it created has the token's sub as stored provider id; and a callback whose
\* token's email is that of a user linked to another provider id creates no
\* session for that user.
C32_SessionOwnerHasSub ==
    [][ op'.fn = "appleCallback" =>
          /\ out'.status = 302 =>
                \A s \in sessions' \ sessions : \A u \in users' :
                    u.id = s.userId => u.appleId = CallbackToken(op').sub
          /\ \A u \in users :
                (/\ u.email = NormalizeEmail(CallbackToken(op').email)
                 /\ u.appleId # NULL
                 /\ u.appleId # CallbackToken(op').sub)
                    => \A s \in sessions' \ sessions : s.userId # u.id ]_vars

\* C33: a callback that passes every check and whose token's sub is the
\* provider id of a stored user is answered with the redirect and creates one
\* session, for that user, whatever the token's email; no second user gets
\* that provider id.
C33_LinkedSubSignsIn ==
    [][ \A u \in users :
          (/\ PassesValidation(op', cookies.apple_oauth_state, now)
           /\ CallbackToken(op').email # <<>>
           /\ CallbackToken(op').sub # NULL
           /\ u.appleId = CallbackToken(op').sub)
              => (/\ out'.status = 302
                  /\ \E s \in sessions' \ sessions :
                          s.userId = u.id /\ sessions' = sessions \cup {s}
                  /\ \A w \in users' : w.appleId = u.appleId => w.id = u.id) ]_vars

\* ------------------------------------- concurrent findOrCreateOAuthUser calls
\* Calls of findOrCreateOAuthUser served concurrently against an empty store:
\* each call runs its statements in order and may be overtaken by the others
\* at each await, that is before each statement on the store.

\* pc: "new" before the call, "found" after getUserByEmail found a user to
\* link, "missing" after it found none, "inserted" after the insert, "done"
\* once the call has returned or thrown.
NewCall ==
    [pc |-> "new", email |-> <<>>, name |-> NULL, appleId |-> NULL,
     existing |-> NoUser, id |-> NoId, out |-> NoOut]

InitOAuthRace ==
    /\ users = {}
    /\ sessions = {}
    /\ now = 0
    /\ nextUid = 1
    /\ nextSid = 1
    /\ cookies = NoCookies
    /\ op = [fn |-> "idle"]
    /\ out = NoOut
    /\ inflight = [p \in Procs |-> NewCall]
    /\ db = NoDatabase
    /\ game = NewGame

\* const existing = await getUserByEmail(opts.email); a user that needs no
\* link is returned at once.
OAuthLookup(p, email, name, appleId) ==
    LET existing == getUserByEmail(users, email)
        r == [inflight[p] EXCEPT !.email = email, !.name = name,
                                 !.appleId = appleId, !.existing = existing]
    IN  /\ inflight[p].pc = "new"
        /\ inflight' = [inflight EXCEPT ![p] =
                IF existing = NoUser THEN [r EXCEPT !.pc = "missing"]
                ELSE IF Truthy(appleId) /\ ~Truthy(existing.appleId)
                THEN [r EXCEPT !.pc = "found"]
                ELSE Answered(r, Ret(FALSE, existing, NoId, 0, 0))]
        /\ UNCHANGED <<users, sessions, now, nextUid, nextSid, cookies, op, out, db, game>>

\* await db.update(users).set({appleId}).where(eq(users.id, existing.id));
\* return existing
OAuthLink(p) ==
    LET r == inflight[p]
        ok == UsersLinkOk(users, r.existing.id, r.appleId)
    IN  /\ r.pc = "found"
        /\ users' = IF ok
                    THEN { IF u.id = r.existing.id
                           THEN [u EXCEPT !.appleId = r.appleId] ELSE u : u \in users }
                    ELSE users
        /\ inflight' = [inflight EXCEPT ![p] =
                IF ok THEN Answered(r, Ret(FALSE, r.existing, NoId, 0, 0))
                ELSE Answered(r, Ret(TRUE, NoUser, NoId, 0, 0))]
        /\ UNCHANGED <<sessions, now, nextUid, nextSid, cookies, op, out, db, game>>

\* await db.insert(users).values({...}); the store's error is not caught.
OAuthInsert(p) ==
    LET r == inflight[p]
        row == [id |-> nextUid, email |-> NormalizeEmail(r.email),
                passwordHash |-> <<>>, name |-> OrNull(r.name),
                appleId |-> OrNull(r.appleId), isAdmin |-> FALSE]
        ok == UsersInsertOk(users, row)
    IN  /\ r.pc = "missing"
        /\ users' = IF ok THEN users \cup {row} ELSE users
        /\ nextUid' = IF ok THEN nextUid + 1 ELSE nextUid
        /\ inflight' = [inflight EXCEPT ![p] =
                IF ok THEN [r EXCEPT !.pc = "inserted", !.id = nextUid]
                ELSE Answered(r, Ret(TRUE, NoUser, NoId, 0, 0))]
        /\ UNCHANGED <<sessions, now, nextSid, cookies, op, out, db, game>>

\* const user = await db.select()...where(eq(users.id, id)).get(); throw 500
\* when there is none; return user
OAuthSelect(p) ==
    LET r == inflight[p]
        user == getUserById(users, r.id)
    IN  /\ r.pc = "inserted"
        /\ inflight' = [inflight EXCEPT ![p] =
                Answered(r, Ret(user = NoUser, user, NoId, 1, 0))]
        /\ UNCHANGED <<users, sessions, now, nextUid, nextSid, cookies, op, out, db, game>>

OAuthEmails == {<<"a", "@", "x">>, <<" ", "A", "@", "X", " ">>, <<"b", "@", "x">>}

NextOAuthRace ==
    \E p \in Procs :
        \/ \E email \in OAuthEmails, name \in Names, appleId \in AppleIds :
                OAuthLookup(p, email, name, appleId)
        \/ OAuthLink(p)
        \/ OAuthInsert(p)
        \/ OAuthSelect(p)

SpecOAuthRace == InitOAuthRace /\ [][NextOAuthRace]_vars

\* The calls made for one address.
OAuthCallsOf(a) == {p \in Procs : inflight[p].pc # "new" /\ inflight[p].email \in a}

\* C34: once two or more concurrent findOrCreateOAuthUser calls for one
\* address that no row held have all returned or thrown, none of them has
\* thrown, all returned the same user id, and one user row has the address.
C34_ConcurrentFindOrCreate ==
    \A a \in Addresses :
        (/\ Cardinality(OAuthCallsOf(a)) >= 2
         /\ \A p \in OAuthCallsOf(a) : inflight[p].pc = "done")
            => /\ \A p \in OAuthCallsOf(a) : inflight[p].out.status = 200
               /\ \A p, q \in OAuthCallsOf(a) :
                    inflight[p].out.user.id = inflight[q].out.user.id
               /\ Cardinality({u \in users : u.email \in a}) = 1

\* Row w is row u with at most the provider id changed.
SameButAppleId(u, w) == w = [u EXCEPT !.appleId = w.appleId]

\* C35: findOrCreateOAuthUser called with the email of a stored user adds and
\* removes no row and leaves every row as it was, except that the provider id
\* of that user, when it was null, may become the one supplied; no session
\* changes.
C35_FindExistingFrame ==
    [][ (/\ op'.fn = "findOrCreateOAuthUser"
         /\ \E e \in users : e.email = NormalizeEmail(op'.email))
            => (/\ sessions' = sessions
                /\ {u.id : u \in users'} = {u.id : u \in users}
                /\ \A u \in users : \A w \in users' :
                        w.id = u.id =>
                            /\ SameButAppleId(u, w)
                            /\ \/ w.appleId = u.appleId
                               \/ /\ u.appleId = NULL
                                  /\ u.email = NormalizeEmail(op'.email)
                                  /\ w.appleId = op'.appleId) ]_vars

C35_Witness ==
    /\ op.fn = "findOrCreateOAuthUser"
    /\ out.status = 200
    /\ out.inserted = 0
    /\ Cardinality(users) = 2
    /\ \E u \in users :
            /\ u.email = NormalizeEmail(op.email)
            /\ u.passwordHash # <<>>
            /\ u.appleId = op.appleId
            /\ out.user.id = u.id
            /\ out.user.appleId = NULL

\* ------------------------------------------------ requests beside an admin
\* The handlers serving requests against a store that holds one user whose
\* is_admin column was set in the database, outside the subsystem.

AdminUser ==
    [createUser({}, 1, <<"a", "@", "x">>, "password1", NULL, <<17>>).user
        EXCEPT !.isAdmin = TRUE]

InitAdmin ==
    /\ users = {AdminUser}
    /\ sessions = {}
    /\ now = 0
    /\ nextUid = 2
    /\ nextSid = 1
    /\ cookies = NoCookies
    /\ op = [fn |-> "idle"]
    /\ out = NoOut
    /\ inflight = <<>>
    /\ db = NoDatabase
    /\ game = NewGame

SpecAdmin == InitAdmin /\ [][Next]_vars

\* C36: no request changes the admin flag of a stored user, and every user a
\* request creates has the flag unset.
C36_AdminFlagUntouched ==
    [][ \A w \in users' :
            IF \E u \in users : u.id = w.id
            THEN \A u \in users : u.id = w.id => w.isAdmin = u.isAdmin
            ELSE w.isAdmin = FALSE ]_vars

C36_Witness ==
    /\ op.fn = "signup"
    /\ out.status = 200
    /\ out.user.isAdmin = FALSE
    /\ out.user \in users
    /\ \E u \in users : u.isAdmin /\ u.appleId = "p1" /\ u.id # out.user.id
    /\ \E s \in sessions : \E u \in users : u.isAdmin /\ s.userId = u.id

\* ------------------------------------------------------------ the snake game
\* The component after it was mounted with nothing saved: the player's clicks,
\* keys and touches and the interval's callbacks, each run to its end before
\* the next (the page has one thread). Any number of games, in which the
\* interval fires MaxTicks times in all.

server == <<users, sessions, now, nextUid, nextSid, cookies, op, out, inflight, db>>

\* Math.random() in spawnFood
Randoms == 0..(RandomSteps - 1)

\* The Play and Play Again buttons, which can be clicked while the overlay is
\* in the page.
ClickPlay(n) ==
    /\ game.overlay
    /\ game' = Render(startGame(game, n))
    /\ UNCHANGED server

\* The overlay has faded out (.fade-leave-active lasts 0.2 s).
FadeOut ==
    /\ game.overlay
    /\ game.state = "playing"
    /\ game' = [game EXCEPT !.overlay = FALSE]
    /\ UNCHANGED server

\* The interval fires, and the callback is counted.
TimerTick(n) ==
    /\ game.timers # {}
    /\ game.ticks < MaxTicks
    /\ game' = Render([tick(game, n) EXCEPT !.ticks = @ + 1])
    /\ UNCHANGED server

Keydown(key, n) ==
    /\ game' = Render(handleKeydown(game, key, n))
    /\ UNCHANGED server

\* A button of the D-pad, shown while a game is played.
DPad(dir) ==
    /\ game.state = "playing"
    /\ game' = changeDirection(game, dir)
    /\ UNCHANGED server

TouchStart(touch) ==
    /\ game' = handleTouchStart(game, touch)
    /\ UNCHANGED server

TouchEnd(touch, n) ==
    /\ game' = Render(handleTouchEnd(game, touch, n))
    /\ UNCHANGED server

Keys == {"Enter", " ", "ArrowUp", "ArrowDown", "ArrowLeft", "ArrowRight", "w", "x"}
TouchStarts == {Point(30, 30)}
TouchEnds ==
    {Point(30, 30), Point(45, 40), Point(0, 30), Point(60, 30), Point(30, 0),
     Point(30, 60), Point(60, 60)}

NextSnake ==
    \/ \E n \in Randoms : ClickPlay(n)
    \/ FadeOut
    \/ \E n \in Randoms : TimerTick(n)
    \/ \E key \in Keys, n \in Randoms : Keydown(key, n)
    \/ \E dir \in Directions : DPad(dir)
    \/ \E touch \in TouchStarts : TouchStart(touch)
    \/ \E touch \in TouchEnds, n \in Randoms : TouchEnd(touch, n)

SpecSnake == Init /\ [][NextSnake]_vars

\* ------------------------------------------------------- one game to its end
\* One game played with the arrow keys for as long as it lasts: Play is
\* clicked once and the interval's callbacks are not counted.

PlayOnce(n) ==
    /\ game.state = "idle"
    /\ ClickPlay(n)

\* The interval fires.
TimerFires(n) ==
    /\ game.timers # {}
    /\ game' = Render(tick(game, n))
    /\ UNCHANGED server

ArrowKeys == {"ArrowUp", "ArrowDown", "ArrowLeft", "ArrowRight"}

NextSnakeFill ==
    \/ \E n \in Randoms : PlayOnce(n)
    \/ \E n \in Randoms : TimerFires(n)
    \/ \E key \in ArrowKeys, n \in Randoms : Keydown(key, n)

SpecSnakeFill == Init /\ [][NextSnakeFill]_vars

\* ------------------------------------------------------ snake game properties

InGrid(p) == 0 <= p.x /\ p.x < GRID /\ 0 <= p.y /\ p.y < GRID

\* C37: while a game is played every cell of the snake lies on the board, no
\* two of its cells are the same, and the food is on none of them.
C37_SnakeOnBoard ==
    game.state = "playing" =>
        /\ \A i \in 1..Len(game.snake) : InGrid(game.snake[i])
        /\ \A i, j \in 1..Len(game.snake) :
                game.snake[i] = game.snake[j] => i = j
        /\ ~Occupied(game.snake, game.food)

C37_Witness ==
    /\ game.state = "playing"
    /\ Len(game.snake) = GRID * GRID - 1
    /\ game.direction = "left"
    /\ game.nextDirection = "up"

\* A step in which the interval's callback ran.
Ticked == game'.ticks # game.ticks

\* C38: the direction a tick applies is never the opposite of the one the
\* tick before it applied (for the first tick of a game, of the direction the
\* snake is laid out in), whatever keys, swipes and D-pad buttons came
\* between the two.
C38_NoReversal ==
    [][ Ticked => game'.direction # opposites(game.direction) ]_vars

C38_Witness ==
    /\ game.state = "playing"
    /\ game.ticks >= 2
    /\ game.direction = "left"
    /\ game.nextDirection = "down"
    /\ game.touchStartPos # NoPoint

\* C39: in a game, played or over, the score is 10 times the number of cells
\* the snake has beyond 3; a tick adds one cell and 10 points or leaves both;
\* and in any other step the two change only when a game starts, to 3 cells
\* and 0 points.
C39_ScoreIsGrowth ==
    [][ /\ game'.state # "idle" => game'.score = 10 * (Len(game'.snake) - 3)
        /\ IF Ticked
           THEN \/ /\ Len(game'.snake) = Len(game.snake) + 1
                   /\ game'.score = game.score + 10
                \/ /\ Len(game'.snake) = Len(game.snake)
                   /\ game'.score = game.score
           ELSE (game'.score # game.score \/ Len(game'.snake) # Len(game.snake))
                    => (/\ game'.state = "playing"
                        /\ game'.score = 0
                        /\ Len(game'.snake) = 3) ]_vars

C39_Witness ==
    /\ game.state = "playing"
    /\ game.score = 20
    /\ Len(game.snake) = 5
    /\ game.highScore = 10

\* The cell the next tick moves the head to.
NextHead(g) == Move(g.snake[1], g.nextDirection)

====
